---- MODULE Spec2Model ----
(***************************************************************************)
(* Funnel decision and folder synchronisation engine of FELIX-BOT-V2.      *)
(*                                                                         *)
(* Spec        FolderManager.move_to_folder against the remote directory   *)
(*             (src/core/folder_manager.py, class FolderManager).          *)
(*                                                                         *)
(* SpecEnsure  ensure_filters called repeatedly on the same directory       *)
(*             (src/core/folder_manager.py, functional API).               *)
(*                                                                         *)
(* SpecRouter  the template ledger (src/core/persistence.py), route_fast    *)
(*             and route_full (src/core/router.py) and the classifier      *)
(*             wrapper choose_template_or_move (src/core/classifier.py).   *)
(* SpecLedger  the ledger operations of src/core/persistence.py alone.     *)
(* SpecLive    on_new_message (src/telegram/handlers.py): concurrent tasks, *)
(*             one per incoming message, with the global permits, the      *)
(*             per-peer locks, the ledger writes, the sends and the moves. *)
(* SpecSim     the offline harness: SimEngine (src/core/sim.py) and direct *)
(*             calls of the classifier wrappers (src/core/classifier.py).  *)
(* SpecLiveFair  SpecLive under a fair event loop.                         *)
(* SpecApi     add_peer_to and remove_peer_from called one after another   *)
(*             (src/core/folder_manager.py, functional API).               *)
(*                                                                         *)
(* A remote call is one step.  The remote directory answers every request  *)
(* either normally or with an error; a folder mutation can in addition be  *)
(* rejected with the invalid-id error (FilterIdInvalidError).              *)
(***************************************************************************)
EXTENDS Integers, Sequences, FiniteSets, TLC

\* ------------------------------------------------------------------ bounds
NumPeers == 2
\* An id of the directory's range that is no managed folder's slot.
SpareId == 5
\* How many times in a row ensure_filters is called.
MaxEnsureCalls == 2
\* How many phrases of the vocabulary a message holds at most.
MaxWords == 2
\* How many ledger operations a behaviour of SpecRouter performs at most.
MaxLedgerOps == 2
\* How many incoming messages the live handler is given.
NumTasks == 2

Peers == 1..NumPeers
None == "None"

\* ------------------------------------------------- folder_manager constants
FOLDER_TITLES == <<"B0", "M0", "C0">>
FOLDER_IDS == [t \in {"B0", "M0", "C0"} |-> CASE t = "B0" -> 2 [] t = "M0" -> 3 [] t = "C0" -> 4]

ManagedTitles == {FOLDER_TITLES[i] : i \in 1..Len(FOLDER_TITLES)}
\* "X": the title of a folder of the account that the program does not manage.
Titles == ManagedTitles \cup {"X"}
\* The directory's id range: the three slots of FOLDER_IDS and a spare id.
FilterIds == {FOLDER_IDS[t] : t \in ManagedTitles} \cup {SpareId}

\* A dialog filter as the code reads it: its title and its include_peers.  The
\* code only ever tests membership in include_peers (any(_same_peer ...)), adds a
\* peer that is absent and filters a peer out, so the list is kept as a set.
NoFilter == [title |-> None, peers |-> {}]
DialogFilter(title, peers) == [title |-> title, peers |-> peers]

VARIABLES
    remote,     \* the remote directory: filter id -> dialog filter (NoFilter: absent)
    cache,      \* FolderManager._filters_cache (NoCache: None)
    fm,         \* the move_to_folder call in progress, or the last one finished
    upd,        \* the _update_filter call in progress, or the last one finished
    ef,         \* the ensure_filters call in progress
    efLog,      \* what each ensure_filters call so far returned and sent
    api,        \* the add_peer_to or remove_peer_from call in progress, or the last one
    used,       \* persistence.USED_TEMPLATES: peer -> set of template keys
    last,       \* persistence.LAST_TEMPLATE: peer -> template key (None: no entry)
    ledgerOps,  \* how many ledger operations have been performed
    rt,         \* the router call just made: its inputs and its decision
    reg,        \* register_handlers' arguments: the rule set, and whether an LLM is given
    tasks,      \* on_new_message: the position and locals of each message's task
    permits,    \* the free permits of rps_lock
    peerLock,   \* peer_locks: the task that holds each peer's lock
    folder,     \* the managed folder the live handler last moved each peer to
    folder_cache, \* FolderCache.map as (folder, peer) pairs
    sim,        \* the SimEngine: its arguments, its peers' folders, its event log
    clf         \* the classifier wrapper call just made: its inputs and its answer

fmVars == <<cache, fm, upd>>
efVars == <<ef, efLog>>
ledgerVars == <<used, last>>
rtVars == <<ledgerOps, rt>>
liveVars == <<reg, tasks, permits, peerLock, folder, folder_cache>>
simVars == <<sim, clf>>
apiVars == <<api>>
vars == <<remote, fmVars, efVars, ledgerVars, rtVars, liveVars, simVars, apiVars>>

\* What the actions of move_to_folder leave alone.
notFM == <<efVars, ledgerVars, rtVars, liveVars, simVars, apiVars>>
\* What the actions of ensure_filters leave alone.
notEnsure == <<fmVars, ledgerVars, rtVars, liveVars, simVars, apiVars>>
\* What the ledger and router actions leave alone.
notRouter == <<remote, fmVars, efVars, liveVars, simVars, apiVars>>

NoCache == <<>>

\* _find_by_title: the id of the filter carrying the title.  Titles stay unique
\* in the directory (see TitlesUnique), so the dict's iteration order is immaterial.
_find_by_title(filters, title) ==
    IF \E fid \in FilterIds : filters[fid].title = title
    THEN CHOOSE fid \in FilterIds :
            /\ filters[fid].title = title
            /\ \A g \in FilterIds : filters[g].title = title => fid <= g
    ELSE 0

\* The managed titles whose folder lists the peer, in a listing of the directory.
ManagedTitlesOf(filters, p) ==
    {filters[fid].title : fid \in {f \in FilterIds : filters[f].title \in ManagedTitles /\ p \in filters[f].peers}}

\* ------------------------------------------------------------ initial state
\* The account's folders exist before the program runs and may have been made by
\* hand, so a title need not sit on the slot FOLDER_IDS names.  Placement(b, m, c, x)
\* is the directory with "B0" at id b, "M0" at m, "C0" at c and "X" at x (0: absent),
\* all folders without members.
Placement(b, m, c, x) ==
    [f \in FilterIds |->
        IF f = b THEN DialogFilter("B0", {})
        ELSE IF f = m THEN DialogFilter("M0", {})
        ELSE IF f = c THEN DialogFilter("C0", {})
        ELSE IF f = x THEN DialogFilter("X", {})
        ELSE NoFilter]

InitRemotes ==
    { Placement(0, 0, 0, 0),            \* a fresh account
      Placement(2, 0, 0, 0),            \* only "B0" made so far
      Placement(2, 3, 4, 0),            \* every title on its slot
      Placement(2, 3, 4, SpareId),      \* the same beside a folder of the user
      Placement(2, SpareId, 4, 0),      \* "M0" made by hand on another id
      Placement(3, 2, 4, 0),            \* "M0" made by hand before "B0"
      Placement(2, 0, 4, 3) }           \* a folder of the user on the slot of "M0"

IdleMove == [pc |-> "idle", title |-> None, peer |-> 0, exclusive |-> TRUE,
             pre |-> {}, creating |-> FALSE, target |-> 0, idx |-> 0]
IdleUpdate == [pc |-> "none", fid |-> 0, df |-> NoFilter, sent |-> 0, first |-> "none",
               second |-> "none", listed |-> {}, relisted |-> FALSE, reorders |-> 0, reorderIds |-> {}, reordered |-> FALSE]

IdleEnsure == [pc |-> "idle", existing |-> NoCache, missing |-> <<>>, i |-> 0,
               attempt |-> 0, muts |-> 0, reorders |-> 0]

InitFM ==
    /\ cache = NoCache
    /\ fm = IdleMove
    /\ upd = IdleUpdate

InitEnsure ==
    /\ ef = IdleEnsure
    /\ efLog = <<>>

\* No add_peer_to or remove_peer_from call has been made.
IdleApi ==
    [fn |-> "none", pc |-> "idle", folder_id |-> 0, peer |-> 0, desired |-> NoFilter,
     pre |-> [f \in FilterIds |-> NoFilter], sent |-> 0, accepted |-> FALSE, calls |-> 0]

InitApi == api = IdleApi

\* ------------------------------------------------------ decisions and idle records
\* peer_id = None: the caller names no peer.
NoPeer == 0

Payload(key, send_key, reason) == [key |-> key, send_key |-> send_key, reason |-> reason]

Decision(action, payload) == [action |-> action, payload |-> payload]

EmptyPayload == Payload(None, None, None)

NoDecision == Decision(None, EmptyPayload)

\* route_full made no classifier call.
NotCalled == [kind |-> "none", outcome |-> "none", decision |-> NoDecision, calls |-> 0]

Tasks == 1..NumTasks

\* asyncio.Semaphore(5).
RpsPermits == 5

NoTask == 0

\* calls: the classifier invocations made for the message while one is awaited.
\* seen: the folder the peer had been moved to when the message arrived, kept
\* while the message is being routed.
IdleTask ==
    [pc |-> "none", peer |-> NoPeer, text |-> {}, call |-> NotCalled, calls |-> 0,
     key |-> None, target |-> None, seen |-> None]

InitLive ==
    /\ tasks = [t \in Tasks |-> IdleTask]
    /\ permits = RpsPermits
    /\ peerLock = [p \in Peers |-> NoTask]
    /\ folder = [p \in Peers |-> None]
    /\ folder_cache = {}

\* No router call made.
IdleRoute == [pc |-> "idle"]

InitRouter ==
    /\ used = [p \in Peers |-> {}]
    /\ last = [p \in Peers |-> None]
    /\ ledgerOps = 0
    /\ rt = IdleRoute

\* register_handlers has not been called.
NotRegistered == [rules |-> "none", llm |-> FALSE]

\* SimEngine.__init__: no peers, no events.  cfg holds the arguments: whether
\* templates has a "welcome" entry, the rule set, whether a classifier is
\* given, simulate_read.
NewEngine(cfg) ==
    [cfg |-> cfg, folder |-> [p \in Peers |-> "absent"], events |-> <<>>,
     pc |-> "idle", peer |-> NoPeer, text |-> {}, outcome |-> "none"]

\* SimEngine(templates={}): every other argument at its default.
DefaultSimConfig == [welcome |-> FALSE, rules |-> "none", classifier |-> FALSE, simulate_read |-> TRUE]

\* No classifier wrapper has been called.
NoWrapperCall ==
    [fn |-> "none", result |-> <<>>, used |-> {}, mode |-> None,
     decision |-> NoDecision, reply |-> None]

InitSim ==
    /\ sim = NewEngine(DefaultSimConfig)
    /\ clf = NoWrapperCall

Init ==
    /\ remote \in InitRemotes
    /\ InitFM
    /\ InitEnsure
    /\ InitApi
    /\ InitRouter
    /\ InitLive
    /\ InitSim
    /\ reg = NotRegistered

\* ------------------------------------------------------ remote directory
\* What the directory answers to a folder mutation (UpdateDialogFilterRequest)
\* and to the other requests (GetDialogFiltersRequest, the reorder request).
MutationAnswers == {"ok", "invalid", "error"}
RequestAnswers == {"ok", "error"}

\* UpdateDialogFilterRequest(id, filter) replaces the whole filter at that id.
ApplyMutation(filters, fid, df) == [filters EXCEPT ![fid] = df]

\* The ids a listing of the directory returns.
ListedIds(filters) == {f \in FilterIds : filters[f].title # None}

\* ------------------------------------------------- FolderManager, helpers
\* _list_filters after a successful GetDialogFiltersRequest: the new value of the
\* cache, which is also what the call returns (lines 31-35).
_list_filters(c, r, force_refresh) == IF c = NoCache \/ force_refresh THEN r ELSE c

\* The force_refresh argument of the listing of line 88.
TargetListingUnforced == FALSE
TargetListingForced == TRUE

\* The member list the remove phase sends for another folder (line 115).
RemovedPeers(peers, p) == peers \ {p}

\* The slot the remove phase looks at for another managed title (line 109).
OtherFolderId(other_title) == FOLDER_IDS[other_title]

\* The next index of FOLDER_TITLES after i whose title is not the target's; 0 when
\* the loop of lines 105-107 is over.
NextOther(i, title) ==
    IF \E j \in (i + 1)..Len(FOLDER_TITLES) : FOLDER_TITLES[j] # title
    THEN CHOOSE j \in (i + 1)..Len(FOLDER_TITLES) :
            /\ FOLDER_TITLES[j] # title
            /\ \A k \in (i + 1)..Len(FOLDER_TITLES) : FOLDER_TITLES[k] # title => j <= k
    ELSE 0

\* move_to_folder leaves by an exception (the lock is released by async with).
Raised(m) == [m EXCEPT !.pc = "raised"]
\* move_to_folder returns target_fid (line 121).
Returned(m) == [m EXCEPT !.pc = "returned"]

\* Where move_to_folder goes on once the peer is in the target folder: the remove
\* phase when exclusive (line 104), else the final refresh (line 120).
AfterAdd(m) ==
    IF m.exclusive /\ NextOther(0, m.title) # 0
    THEN [m EXCEPT !.pc = "rm_list", !.idx = NextOther(0, m.title)]
    ELSE [m EXCEPT !.pc = "final"]

\* Where the remove loop goes on after the folder at index m.idx is dealt with.
AfterRemove(m) ==
    IF NextOther(m.idx, m.title) # 0
    THEN [m EXCEPT !.pc = "rm_list", !.idx = NextOther(m.idx, m.title)]
    ELSE [m EXCEPT !.pc = "final"]

\* Where move_to_folder goes on after _update_filter returned: line 96 after the
\* creation, line 104 after the append, the loop after a removal.
AfterUpdate(m) ==
    IF m.pc = "add_update"
    THEN IF m.creating THEN [m EXCEPT !.pc = "ensure_reorder"] ELSE AfterAdd(m)
    ELSE AfterRemove(m)

\* _update_filter is entered with (fid, df): nothing sent yet.
StartUpdate(fid, df) ==
    [pc |-> "first", fid |-> fid, df |-> df, sent |-> 0, first |-> "none",
     second |-> "none", listed |-> {}, relisted |-> FALSE, reorders |-> 0, reorderIds |-> {}, reordered |-> FALSE]

\* The id list of the reorder request of line 43-44.
ReorderIds(listed, fid) == listed \cup {fid}

\* What _update_filter does when the retried mutation (line 46) is rejected: the
\* call is outside the try, the exception leaves _update_filter.
RetryRejectedTriesAgain(u) == [u EXCEPT !.pc = "relist"]
RetryRejected(u) == [u EXCEPT !.pc = "raised"]

\* The values move_to_folder's callers pass for exclusive: move_to_manual,
\* move_to_bot and move_to_confirmation (lines 123-125) all use the default.
ExclusiveArgs == {TRUE}

\* ------------------------------------------------- FolderManager.move_to_folder
\* Lines 80-85: the title check, the lock, get_input_entity.
MoveStart ==
    /\ UNCHANGED notFM
    /\ fm.pc = "idle"
    /\ \E title \in Titles, p \in Peers, ex \in ExclusiveArgs, resolved \in BOOLEAN :
        LET m == [pc |-> "list_target", title |-> title, peer |-> p, exclusive |-> ex,
                  pre |-> ManagedTitlesOf(remote, p), creating |-> FALSE,
                  target |-> 0, idx |-> 0]
        IN  fm' = IF title \in ManagedTitles /\ resolved THEN m ELSE Raised(m)
    /\ upd' = IdleUpdate
    /\ UNCHANGED <<remote, cache>>

\* Lines 88-101: list, find the target by title, then create it or append the peer.
MoveListTarget ==
    /\ UNCHANGED notFM
    /\ fm.pc = "list_target"
    /\ \E ans \in RequestAnswers :
        IF ans = "error"
        THEN /\ fm' = Raised(fm)
             /\ UNCHANGED <<cache, upd>>
        ELSE LET all_filters == _list_filters(cache, remote, TargetListingForced)
                 tf == _find_by_title(all_filters, fm.title)
             IN
             IF tf = 0
             THEN /\ cache' = all_filters
                  /\ upd' = StartUpdate(FOLDER_IDS[fm.title], DialogFilter(fm.title, {fm.peer}))
                  /\ fm' = [fm EXCEPT !.pc = "add_update", !.creating = TRUE,
                                      !.target = FOLDER_IDS[fm.title]]
             ELSE IF fm.peer \notin all_filters[tf].peers
                  THEN \* target_df is the cached object: append mutates the cache
                       /\ cache' = [all_filters EXCEPT ![tf].peers = @ \cup {fm.peer}]
                       /\ upd' = StartUpdate(tf, cache'[tf])
                       /\ fm' = [fm EXCEPT !.pc = "add_update", !.target = tf]
                  ELSE /\ cache' = all_filters
                       /\ upd' = upd
                       /\ fm' = AfterAdd([fm EXCEPT !.target = tf])
    /\ UNCHANGED remote

\* _update_filter, line 39: the mutation is sent.
UpdateFirst ==
    /\ UNCHANGED notFM
    /\ fm.pc \in {"add_update", "rm_update"}
    /\ upd.pc = "first"
    /\ \E ans \in MutationAnswers :
        LET u == [upd EXCEPT !.sent = @ + 1, !.first = ans] IN
        CASE ans = "ok" ->
                /\ remote' = ApplyMutation(remote, upd.fid, upd.df)
                /\ upd' = [u EXCEPT !.pc = "ok"]
                /\ fm' = AfterUpdate(fm)
          [] ans = "invalid" ->
                /\ upd' = [u EXCEPT !.pc = "relist"]
                /\ UNCHANGED <<remote, fm>>
          [] ans = "error" ->
                /\ upd' = [u EXCEPT !.pc = "raised"]
                /\ fm' = Raised(fm)
                /\ UNCHANGED remote
    /\ UNCHANGED cache

\* _update_filter, lines 41-42: the directory is listed again (not into the cache).
UpdateRelist ==
    /\ UNCHANGED notFM
    /\ upd.pc = "relist"
    /\ \E ans \in RequestAnswers :
        IF ans = "ok"
        THEN /\ upd' = [upd EXCEPT !.pc = "reorder", !.relisted = TRUE, !.listed = ListedIds(remote)]
             /\ fm' = fm
        ELSE /\ upd' = [upd EXCEPT !.pc = "raised"]
             /\ fm' = Raised(fm)
    /\ UNCHANGED <<remote, cache>>

\* _update_filter, lines 43-45: the reorder request, then the one second sleep.
UpdateReorder ==
    /\ UNCHANGED notFM
    /\ upd.pc = "reorder"
    /\ \E ans \in RequestAnswers :
        LET u == [upd EXCEPT !.reorders = @ + 1, !.reorderIds = ReorderIds(upd.listed, upd.fid)] IN
        IF ans = "ok"
        THEN /\ upd' = [u EXCEPT !.pc = "retry", !.reordered = TRUE]
             /\ fm' = fm
        ELSE /\ upd' = [u EXCEPT !.pc = "raised"]
             /\ fm' = Raised(fm)
    /\ UNCHANGED <<remote, cache>>

\* _update_filter, line 46: the mutation is sent again.
UpdateRetry ==
    /\ UNCHANGED notFM
    /\ upd.pc = "retry"
    /\ \E ans \in MutationAnswers :
        LET u == [upd EXCEPT !.sent = @ + 1, !.second = ans] IN
        IF ans = "ok"
        THEN /\ remote' = ApplyMutation(remote, upd.fid, upd.df)
             /\ upd' = [u EXCEPT !.pc = "ok"]
             /\ fm' = AfterUpdate(fm)
        ELSE /\ upd' = RetryRejected(u)
             /\ fm' = IF upd'.pc = "raised" THEN Raised(fm)
                      ELSE IF upd'.pc = "ok" THEN AfterUpdate(fm) ELSE fm
             /\ UNCHANGED remote
    /\ UNCHANGED cache

\* _ensure_ids_in_order, lines 49-54: the reorder request; its failure is swallowed.
MoveEnsureReorder ==
    /\ UNCHANGED notFM
    /\ fm.pc = "ensure_reorder"
    /\ \E ans \in RequestAnswers : fm' = [fm EXCEPT !.pc = "ensure_refresh"]
    /\ UNCHANGED <<remote, cache, upd>>

\* _ensure_ids_in_order, lines 55-57: the forced refresh in the finally clause.
MoveEnsureRefresh ==
    /\ UNCHANGED notFM
    /\ fm.pc = "ensure_refresh"
    /\ \E ans \in RequestAnswers :
        IF ans = "ok"
        THEN /\ cache' = _list_filters(cache, remote, TRUE)
             /\ fm' = AfterAdd(fm)
        ELSE /\ cache' = cache
             /\ fm' = Raised(fm)
    /\ UNCHANGED <<remote, upd>>

\* Lines 105-117: one turn of the remove loop up to the mutation it sends.
MoveRemoveList ==
    /\ UNCHANGED notFM
    /\ fm.pc = "rm_list"
    /\ \E ans \in RequestAnswers :
        IF ans = "error"
        THEN /\ fm' = Raised(fm)
             /\ UNCHANGED <<cache, upd>>
        ELSE LET other_fid == OtherFolderId(FOLDER_TITLES[fm.idx])
                 current_filters == _list_filters(cache, remote, TRUE)
                 other_df == current_filters[other_fid]
             IN  IF other_df.title # None /\ fm.peer \in other_df.peers
                 THEN \* other_df is the cached object: its include_peers is replaced
                      /\ cache' = [current_filters EXCEPT
                                      ![other_fid].peers = RemovedPeers(@, fm.peer)]
                      /\ upd' = StartUpdate(other_fid, cache'[other_fid])
                      /\ fm' = [fm EXCEPT !.pc = "rm_update"]
                 ELSE /\ cache' = current_filters
                      /\ upd' = upd
                      /\ fm' = AfterRemove(fm)
    /\ UNCHANGED remote

\* Lines 119-121: the final refresh and the return.
MoveFinal ==
    /\ UNCHANGED notFM
    /\ fm.pc = "final"
    /\ \E ans \in RequestAnswers :
        IF ans = "ok"
        THEN /\ cache' = _list_filters(cache, remote, TRUE)
             /\ fm' = Returned(fm)
        ELSE /\ cache' = cache
             /\ fm' = Raised(fm)
    /\ UNCHANGED <<remote, upd>>

\* The caller has the result (or the exception); the manager is free for the next call.
MoveDone ==
    /\ UNCHANGED notFM
    /\ fm.pc \in {"returned", "raised"}
    /\ fm' = IdleMove
    /\ upd' = IdleUpdate
    /\ UNCHANGED <<remote, cache>>

Next ==
    \/ MoveStart
    \/ MoveListTarget
    \/ UpdateFirst
    \/ UpdateRelist
    \/ UpdateReorder
    \/ UpdateRetry
    \/ MoveEnsureReorder
    \/ MoveEnsureRefresh
    \/ MoveRemoveList
    \/ MoveFinal
    \/ MoveDone

Spec == Init /\ [][Next]_vars

\* Sanity: no two folders of the directory carry the same title.
TitlesUnique ==
    \A f, g \in FilterIds : (f # g /\ remote[f].title # None) => remote[f].title # remote[g].title

\* ======================================================================
\* Claims about FolderManager (specification Spec)
\* ======================================================================

\* C1: when move_to_folder(T, p) with exclusive=True returns without raising,
\* having started with p in at most one managed folder, the directory lists p in
\* folder T and in no other managed folder.
C1_ExclusiveAfterMove ==
    (fm.pc = "returned" /\ fm.exclusive /\ Cardinality(fm.pre) <= 1)
        => ManagedTitlesOf(remote, fm.peer) = {fm.title}

\* C2 as stated: in every reachable state of the directory, the states between
\* the remote calls of a move in progress included, each peer is in at most one
\* managed folder.
C2_AtMostOneAlways ==
    \A p \in Peers : Cardinality(ManagedTitlesOf(remote, p)) <= 1

\* C2 as amended: a step puts a peer into a managed folder it was not in only
\* when it is the add mutation of that peer's own move_to_folder(T, p), and then
\* the folder is T; every other step leaves each peer's managed folders as they
\* were or removes some.  So a peer is in more than one managed folder only from
\* the add of its own move onwards.
C2_GrowsOnlyByOwnAdd ==
    [][\A q \in Peers :
          ManagedTitlesOf(remote', q) \subseteq
              (ManagedTitlesOf(remote, q) \cup
                  (IF q = fm.peer /\ fm.pc = "add_update" THEN {fm.title} ELSE {}))]_vars

\* C2's case: a move of one peer stands between its add and its remove phase with
\* the peer in two managed folders, while another peer is in exactly one.
C2_Witness ==
    /\ fm.pc \in {"rm_list", "rm_update"}
    /\ Cardinality(ManagedTitlesOf(remote, fm.peer)) = 2
    /\ \E q \in Peers : q # fm.peer /\ Cardinality(ManagedTitlesOf(remote, q)) = 1

\* C3: from a state with p in two or more managed folders, the next move_to_folder(T, p)
\* that returns successfully leaves p in T and in no other managed folder.
C3_SelfHeals ==
    (fm.pc = "returned" /\ fm.exclusive /\ Cardinality(fm.pre) >= 2)
        => ManagedTitlesOf(remote, fm.peer) = {fm.title}

UpdateOver == upd.pc \in {"ok", "raised"}

\* C7 as stated: after an invalid-id rejection the layer sends one reorder request
\* that contains the rejected id and retries the mutation exactly once; no call
\* sends the mutation more than twice.
C7_ReorderAndRetryOnce ==
    /\ upd.sent <= 2
    /\ (UpdateOver /\ upd.first = "invalid") =>
            (upd.reorders = 1 /\ upd.fid \in upd.reorderIds /\ upd.sent = 2)

\* C7 as amended: no _update_filter call sends the mutation more than twice or the
\* reorder request more than once; a second send happens only after an invalid-id
\* rejection of the first and a reorder request that succeeded, and a reorder
\* request is sent only after that rejection and a successful re-listing, with the
\* rejected id in its id list; if the re-listing succeeds the reorder request is
\* sent, and if the reorder request succeeds the mutation is retried exactly once.
C7_RetryAtMostOnce ==
    /\ upd.sent <= 2
    /\ upd.reorders <= 1
    /\ upd.sent = 2 => (upd.first = "invalid" /\ upd.reorders = 1 /\ upd.reordered)
    /\ upd.reorders = 1 => (upd.first = "invalid" /\ upd.relisted /\ upd.fid \in upd.reorderIds)
    /\ (UpdateOver /\ upd.first = "invalid" /\ upd.relisted) => upd.reorders = 1
    /\ (UpdateOver /\ upd.reordered) => upd.sent = 2

\* C7's case: a mutation was rejected with invalid-id, the reorder request went
\* out and the retry was sent (and rejected again).
C7_Witness ==
    /\ upd.pc = "raised"
    /\ upd.first = "invalid"
    /\ upd.reorders = 1
    /\ upd.sent = 2
    /\ upd.second = "invalid"

\* C8: when the retried mutation is rejected a second time, move_to_folder does
\* not raise: it goes on and returns to its caller.
C8_SecondFailureNotRaised ==
    (upd.sent = 2 /\ upd.second = "invalid") => fm.pc # "raised"

\* ======================================================================
\* ensure_filters (functional API, lines 240-305)
\* ======================================================================
FOLDERS == [fid \in {2, 3, 4} |-> CASE fid = 3 -> "M0" [] fid = 2 -> "B0" [] fid = 4 -> "C0"]
\* FOLDERS.keys() in the dict's order.
FOLDERS_KEYS == <<3, 2, 4>>

\* get_input_entity('me'): the placeholder member of a folder ensure_filters creates.
SelfPeer == 0

\* The subsequence of ids for which keep holds.
RECURSIVE FilterSeq(_, _)
FilterSeq(ids, keep) ==
    IF ids = <<>> THEN <<>>
    ELSE (IF Head(ids) \in keep THEN <<Head(ids)>> ELSE <<>>) \o FilterSeq(Tail(ids), keep)

\* Lines 251 and 293: the ids of FOLDERS the listing does not hold.
MissingIdsAll(existing) == FOLDERS_KEYS
MissingIds(existing) == FilterSeq(FOLDERS_KEYS, {fid \in DOMAIN FOLDERS : fid \notin ListedIds(existing)})

\* Line 305: the returned dict, as its (title, id) pairs.
EnsureResult(existing) ==
    {<<existing[fid].title, fid>> : fid \in {f \in DOMAIN FOLDERS : f \in ListedIds(existing)}}

EnsureReturned(c, existing) ==
    [result |-> "returned", mapping |-> EnsureResult(existing), muts |-> c.muts, reorders |-> c.reorders]
EnsureRaised(c) ==
    [result |-> "raised", mapping |-> {}, muts |-> c.muts, reorders |-> c.reorders]

EnsureStart ==
    /\ ef.pc = "idle"
    /\ Len(efLog) < MaxEnsureCalls
    /\ ef' = [IdleEnsure EXCEPT !.pc = "list"]
    /\ UNCHANGED <<remote, notEnsure, efLog>>

\* Lines 245-251: the first listing; with nothing missing the call returns at once.
EnsureList ==
    /\ ef.pc = "list"
    /\ \E ans \in RequestAnswers :
        IF ans = "error"
        THEN /\ efLog' = Append(efLog, EnsureRaised(ef))
             /\ ef' = IdleEnsure
        ELSE IF MissingIds(remote) = <<>>
             THEN /\ efLog' = Append(efLog, EnsureReturned(ef, remote))
                  /\ ef' = IdleEnsure
             ELSE /\ efLog' = efLog
                  /\ ef' = [ef EXCEPT !.pc = "order", !.existing = remote,
                                      !.missing = MissingIds(remote)]
    /\ UNCHANGED <<remote, notEnsure>>

\* Lines 255-262: the reorder request for all ids; its failure is only logged.
EnsureOrder ==
    /\ ef.pc = "order"
    /\ \E ans \in RequestAnswers : ef' = [ef EXCEPT !.pc = "me", !.reorders = @ + 1]
    /\ UNCHANGED <<remote, notEnsure, efLog>>

\* Line 265: get_input_entity('me').
EnsureResolveMe ==
    /\ ef.pc = "me"
    /\ \E ans \in RequestAnswers :
        IF ans = "ok"
        THEN /\ ef' = [ef EXCEPT !.pc = "create", !.i = 1]
             /\ efLog' = efLog
        ELSE /\ efLog' = Append(efLog, EnsureRaised(ef))
             /\ ef' = IdleEnsure
    /\ UNCHANGED <<remote, notEnsure>>

\* Lines 266-274: one missing folder is created; a rejection is only logged.
EnsureCreate ==
    /\ ef.pc = "create"
    /\ LET fid == ef.missing[ef.i]
           after == [ef EXCEPT !.muts = @ + 1, !.i = @ + 1,
                               !.pc = IF ef.i = Len(ef.missing) THEN "test" ELSE "create"]
       IN  \E ans \in MutationAnswers :
            /\ remote' = IF ans = "ok"
                         THEN ApplyMutation(remote, fid, DialogFilter(FOLDERS[fid], {SelfPeer}))
                         ELSE remote
            /\ ef' = after
    /\ UNCHANGED <<notEnsure, efLog>>

\* Line 284: the listing right after the creations.
EnsureTest ==
    /\ ef.pc = "test"
    /\ \E ans \in RequestAnswers :
        IF ans = "ok"
        THEN /\ ef' = [ef EXCEPT !.pc = "check", !.attempt = 0]
             /\ efLog' = efLog
        ELSE /\ efLog' = Append(efLog, EnsureRaised(ef))
             /\ ef' = IdleEnsure
    /\ UNCHANGED <<remote, notEnsure>>

\* Lines 288-305: one turn of the visibility loop (range(5)), then the return.
EnsureCheck ==
    /\ ef.pc = "check"
    /\ \E ans \in RequestAnswers :
        IF ans = "error"
        THEN /\ efLog' = Append(efLog, EnsureRaised(ef))
             /\ ef' = IdleEnsure
        ELSE IF MissingIds(remote) = <<>> \/ ef.attempt = 4
             THEN /\ efLog' = Append(efLog, EnsureReturned(ef, remote))
                  /\ ef' = IdleEnsure
             ELSE /\ efLog' = efLog
                  /\ ef' = [ef EXCEPT !.attempt = @ + 1, !.existing = remote]
    /\ UNCHANGED <<remote, notEnsure>>

NextEnsure ==
    \/ EnsureStart
    \/ EnsureList
    \/ EnsureOrder
    \/ EnsureResolveMe
    \/ EnsureCreate
    \/ EnsureTest
    \/ EnsureCheck

SpecEnsure == Init /\ [][NextEnsure]_vars

\* C9 as stated: two ensure_filters calls in a row return the same mapping, and
\* the second sends no creating or updating mutation.
C9_SecondCallNoOp ==
    \A k \in 1..(Len(efLog) - 1) :
        (efLog[k].result = "returned" /\ efLog[k + 1].result = "returned") =>
            (efLog[k + 1].mapping = efLog[k].mapping /\ efLog[k + 1].muts = 0)

AllFoldersIn(mapping) == {pr[2] : pr \in mapping} = DOMAIN FOLDERS

\* C9 as amended: when an ensure_filters call returns a mapping that holds every
\* id of FOLDERS, the next call sends no mutation and no reorder request, and if
\* it returns, it returns the same mapping.
C9_NoOpOnceComplete ==
    \A k \in 1..(Len(efLog) - 1) :
        (efLog[k].result = "returned" /\ AllFoldersIn(efLog[k].mapping)) =>
            /\ efLog[k + 1].muts = 0
            /\ efLog[k + 1].reorders = 0
            /\ efLog[k + 1].result = "returned" => efLog[k + 1].mapping = efLog[k].mapping

\* C9's case: a first call that had to create folders returned the full mapping,
\* and a second call returned after it.
C9_Witness ==
    /\ Len(efLog) >= 2
    /\ efLog[1].result = "returned"
    /\ efLog[1].muts > 0
    /\ AllFoldersIn(efLog[1].mapping)
    /\ efLog[2].result = "returned"

(***************************************************************************)
(* The template ledger: src/core/persistence.py.                           *)
(***************************************************************************)

TemplateKeys == {"greeting", "pricelist", "paylink", "confirmation"}

\* The peers route_full is called for: no peer, or the first peer.  The
\* ledger operations are called for every peer and treat all peers alike.
RouterPeers == {NoPeer} \cup {p \in Peers : \A q \in Peers : p <= q}

\* The keys the ledger operations are called with: the ones the router looks
\* up in the ledger.
LedgerKeys == {"greeting", "pricelist", "paylink"}

template_already_used(U, peer_id, template_key) == template_key \in U[peer_id]

get_used_templates(U, peer_id) == U[peer_id]

get_last_template(L, peer_id) == L[peer_id]

LedgerStep ==
    /\ rt.pc = "idle"
    /\ ledgerOps < MaxLedgerOps
    /\ ledgerOps' = ledgerOps + 1
    /\ UNCHANGED <<rt, notRouter>>

\* A mark_template_used that stores the key in place of the peer's set.
mark_template_usedReplacing ==
    /\ LedgerStep
    /\ \E p \in Peers, k \in LedgerKeys :
        used' = [used EXCEPT ![p] = {k}]
    /\ UNCHANGED last

mark_template_used ==
    /\ LedgerStep
    /\ \E p \in Peers, k \in LedgerKeys :
        used' = [used EXCEPT ![p] = @ \cup {k}]
    /\ UNCHANGED last

set_last_template ==
    /\ LedgerStep
    /\ \E p \in Peers, k \in LedgerKeys :
        last' = [last EXCEPT ![p] = k]
    /\ UNCHANGED used

reset_peer_history ==
    /\ LedgerStep
    /\ \E p \in Peers :
        /\ used' = [used EXCEPT ![p] = {}]
        /\ last' = [last EXCEPT ![p] = None]

\* The ledger operations alone, called in any order for any peers.
NextLedger ==
    \/ mark_template_used
    \/ set_last_template
    \/ reset_peer_history

SpecLedger == Init /\ [][NextLedger]_vars

\* C33: mark_template_used(p, k) makes template_already_used(p, k) true and
\* no operation but reset_peer_history(p) makes it false again; a
\* reset_peer_history(p) leaves p with an empty used set and no last
\* template; an operation on one peer leaves the entries of every other
\* peer as they were.
C33_LedgerOperations ==
    [][ /\ mark_template_used =>
                \E p \in Peers, k \in LedgerKeys :
                    /\ template_already_used(used', p, k)
                    /\ get_used_templates(used', p) = get_used_templates(used, p) \cup {k}
        /\ reset_peer_history =>
                \E p \in Peers :
                    /\ get_used_templates(used', p) = {}
                    /\ get_last_template(last', p) = None
        /\ \A p \in Peers, k \in LedgerKeys :
                (template_already_used(used, p, k) /\ ~template_already_used(used', p, k))
                    => reset_peer_history /\ used'[p] = {} /\ last'[p] = None
        /\ \A p \in Peers :
                (used'[p] # used[p] \/ last'[p] # last[p])
                    => \A q \in Peers \ {p} : used'[q] = used[q] /\ last'[q] = last[q] ]_vars

\* A key marked for a peer is still marked after a set_last_template for
\* the same peer.
C33_Witness ==
    /\ ledgerOps = MaxLedgerOps
    /\ \E p \in Peers, k \in LedgerKeys : template_already_used(used, p, k) /\ last[p] # None

(***************************************************************************)
(* Messages and rules.  A message is the set of the vocabulary's phrases   *)
(* it holds; a pattern is the set of phrases it matches.  For every        *)
(* sequence of up to three phrases joined by spaces, each expression and   *)
(* keyword list of router.py matches the joined text exactly when it       *)
(* matches one of the phrases.                                             *)
(***************************************************************************)

Phrases ==
    {"hey", "prices", "how do i pay", "i sent", "paid", "nah", "yes", "here you go"}

Texts == {t \in SUBSET Phrases : Cardinality(t) <= MaxWords}

AFFIRM_INLINE == {"yes"}

PAYMENT_INTENT_RE == {"here you go"}

\* The substring lists of route_fast's built-in path and its "paid"/"sending"
\* test, as the phrases that contain one of the substrings.
BuiltinGreeting == {"hey", "here you go"}
BuiltinPricelist == {"prices"}
BuiltinPaylink == {"how do i pay"}
BuiltinTimewaster == {"nah"}
BuiltinConfirmation == {"paid", "i sent"}
PaidOrSending == {"paid"}

Categories == {"greeting", "pricelist", "paylink", "confirmation"}

\* rules = {}.
NoRules == [keywords |-> [c \in {} |-> {}], not_interested |-> {}]

\* The rule set of tests/test_router.py.
TestRules ==
    [keywords |-> [c \in Categories |->
        CASE c = "greeting" -> {{"hey"}}
          [] c = "pricelist" -> {{"prices"}}
          [] c = "paylink" -> {{"how do i pay"}}
          [] c = "confirmation" -> {{"i sent"}}],
     not_interested |-> {{"nah"}}]

RuleSets == {"none", "tests"}

RulesOf(name) == IF name = "none" THEN NoRules ELSE TestRules

match_any(patterns, text) == \E pat \in patterns : pat \cap text # {}

is_affirmative_inline(text) == text \cap AFFIRM_INLINE # {}

looks_like_payment_intent(text) == text \cap PAYMENT_INTENT_RE # {}

(***************************************************************************)
(* Decisions: (action, payload).                                           *)
(***************************************************************************)

SendTemplate(key) == Decision("send_template", Payload(key, None, None))

MoveConfirmation == Decision("move_confirmation", Payload(None, "confirmation", None))

MoveTimewaster == Decision("move_timewaster", EmptyPayload)

Manual(reason) == Decision("manual", Payload(None, None, reason))

MoveManual(reason) == Decision("move_manual", Payload(None, None, reason))

\* A variant with no repeat guard.
UnguardedTemplate(U, peer_id, key) == SendTemplate(key)

\* A variant whose repeat guard looks at every peer's used set.
GuardedTemplateAnyPeer(U, peer_id, key) ==
    IF peer_id # NoPeer /\ \E q \in Peers : template_already_used(U, q, key)
        THEN Manual("repeat_template")
        ELSE SendTemplate(key)

\* The repeat guard of the greeting and pricelist branches.
GuardedTemplate(U, peer_id, key) ==
    IF peer_id # NoPeer /\ template_already_used(U, peer_id, key)
        THEN Manual("repeat_template")
        ELSE SendTemplate(key)

KwGet(kw, c) == IF c \in DOMAIN kw THEN kw[c] ELSE {}

\* A variant in which an affirmation after the paylink advances to the
\* confirmation template.
AffirmationFallbackAdvancing(L, peer_id, text) ==
    LET lastKey == IF peer_id # NoPeer THEN get_last_template(L, peer_id) ELSE None
    IN  IF is_affirmative_inline(text) /\ lastKey = "greeting" THEN SendTemplate("pricelist")
        ELSE IF is_affirmative_inline(text) /\ lastKey = "pricelist" THEN SendTemplate("paylink")
        ELSE IF is_affirmative_inline(text) /\ lastKey = "paylink" THEN SendTemplate("confirmation")
        ELSE Manual(None)

\* The affirmation fallback and the default at the end of route_fast.
AffirmationFallback(L, peer_id, text) ==
    LET lastKey == IF peer_id # NoPeer THEN get_last_template(L, peer_id) ELSE None
    IN  IF is_affirmative_inline(text) /\ lastKey = "greeting" THEN SendTemplate("pricelist")
        ELSE IF is_affirmative_inline(text) /\ lastKey = "pricelist" THEN SendTemplate("paylink")
        ELSE Manual(None)

\* The built-in keyword path taken when the rule set has no keywords.
BuiltinPath(U, L, peer_id, text) ==
    IF text \cap BuiltinGreeting # {} THEN GuardedTemplate(U, peer_id, "greeting")
    ELSE IF text \cap BuiltinPricelist # {} THEN GuardedTemplate(U, peer_id, "pricelist")
    ELSE IF text \cap BuiltinPaylink # {} THEN SendTemplate("paylink")
    ELSE IF text \cap BuiltinTimewaster # {} THEN MoveTimewaster
    ELSE IF text \cap BuiltinConfirmation # {} THEN MoveConfirmation
    ELSE AffirmationFallback(L, peer_id, text)

\* A variant that guards the paylink like the greeting and the pricelist.
route_fastGuardingPaylink(U, L, text, rules, peer_id) ==
    IF match_any(KwGet(rules.keywords, "paylink"), text)
        THEN GuardedTemplate(U, peer_id, "paylink")
        ELSE AffirmationFallback(L, peer_id, text)

route_fast(U, L, text, rules, peer_id) ==
    LET kw == rules.keywords
    IN  IF match_any(KwGet(kw, "greeting"), text) THEN GuardedTemplate(U, peer_id, "greeting")
        ELSE IF match_any(KwGet(kw, "pricelist"), text) THEN GuardedTemplate(U, peer_id, "pricelist")
        ELSE IF match_any(KwGet(kw, "paylink"), text) THEN SendTemplate("paylink")
        ELSE IF match_any(KwGet(kw, "confirmation"), text) \/ text \cap PaidOrSending # {}
            THEN MoveConfirmation
        ELSE IF match_any(rules.not_interested, text) THEN MoveTimewaster
        ELSE IF DOMAIN kw = {} THEN BuiltinPath(U, L, peer_id, text)
        ELSE AffirmationFallback(L, peer_id, text)

\* AFFIRM_RE of route matches the whole message only.
is_affirmative(text) == text = {"yes"}

\* route: with no keywords the built-in lists come first (timewaster before
\* confirmation) and rules.not_interested is never read; its synonym lists
\* match no phrase of the vocabulary that the built-in lists do not match.
route(U, L, text, rules, peer_id) ==
    LET kw == rules.keywords
        lastKey == IF peer_id # NoPeer THEN get_last_template(L, peer_id) ELSE None
        fallback ==
            IF is_affirmative(text) /\ lastKey = "greeting" THEN SendTemplate("pricelist")
            ELSE IF is_affirmative(text) /\ lastKey = "pricelist" THEN SendTemplate("paylink")
            ELSE Manual(None)
    IN  IF DOMAIN kw = {}
            THEN IF text \cap BuiltinGreeting # {} THEN GuardedTemplate(U, peer_id, "greeting")
                 ELSE IF text \cap BuiltinPricelist # {} THEN GuardedTemplate(U, peer_id, "pricelist")
                 ELSE IF text \cap BuiltinPaylink # {} THEN SendTemplate("paylink")
                 ELSE IF text \cap BuiltinTimewaster # {} THEN MoveTimewaster
                 ELSE IF text \cap BuiltinConfirmation # {} THEN MoveConfirmation
                 ELSE fallback
        ELSE IF match_any(KwGet(kw, "greeting"), text) THEN GuardedTemplate(U, peer_id, "greeting")
        ELSE IF match_any(KwGet(kw, "pricelist"), text) THEN GuardedTemplate(U, peer_id, "pricelist")
        ELSE IF match_any(KwGet(kw, "paylink"), text) THEN SendTemplate("paylink")
        ELSE IF match_any(KwGet(kw, "confirmation"), text) \/ text \cap PaidOrSending # {}
            THEN MoveConfirmation
        ELSE IF match_any(rules.not_interested, text) THEN MoveTimewaster
        ELSE fallback

(***************************************************************************)
(* The classifier wrapper: src/core/classifier.py.                         *)
(***************************************************************************)

\* register_handlers' default threshold 0.75, in hundredths.
Threshold == 75

\* Confidences a classifier reports, in hundredths: below and at the threshold.
Confidences == {50, 75}

\* What a classifier's classify() can answer: an action (None: the answer has
\* no "action" entry, as the answer of LLM.classify), a template key and a
\* confidence.
ClassifierActions ==
    {None, "send_template", "move_confirmation", "move_timewaster", "move_manual", "send_reply"}

ClassifierKeys == {None, "pricelist", "paylink", "bogus"}

RawResults == [action : ClassifierActions, template_key : ClassifierKeys, confidence : Confidences]

LlmModes == {"classify", "reply"}

choose_template_or_move(result, used_templates, threshold, llm_mode) ==
    LET action == IF result.action = None THEN "move_manual" ELSE result.action
        key == IF llm_mode = "classify" /\ action # "send_template"
                   THEN None ELSE result.template_key
    IN  IF llm_mode = "classify" /\ action = "send_template" /\ key \notin TemplateKeys
            THEN MoveManual("bad_key")
        ELSE IF result.confidence < threshold THEN MoveManual(None)
        ELSE IF action = "send_template"
            THEN IF key \in used_templates
                     THEN MoveManual("repeat_template")
                     ELSE SendTemplate(key)
        ELSE IF action = "move_confirmation" THEN MoveConfirmation
        ELSE IF action = "move_timewaster" THEN MoveTimewaster
        ELSE MoveManual(None)

(***************************************************************************)
(* route_full: src/core/router.py.                                         *)
(***************************************************************************)

\* What an adapter object's own choose_template_or_move can answer.
AdapterDecisions == {MoveManual(None), Manual(None), SendTemplate("paylink")}

\* classifier is None, a raw LLM, or an object with its own
\* choose_template_or_move.
ClassifierKinds == {"absent", "llm", "adapter"}

\* One classifier call of route_full: it raises, or it returns a decision.
ClassifierCall(kind, outcome, decision) ==
    [kind |-> kind, outcome |-> outcome, decision |-> decision, calls |-> 1]

ClassifierCalls(kind, used_templates) ==
    CASE kind = "absent" -> {NotCalled}
      [] kind = "llm" ->
            {ClassifierCall(kind, "raised", NoDecision)} \cup
            {ClassifierCall(kind, "returned",
                            choose_template_or_move(r, used_templates, Threshold, m)) :
                r \in RawResults, m \in LlmModes}
      [] kind = "adapter" ->
            {ClassifierCall(kind, "raised", NoDecision)} \cup
            {ClassifierCall(kind, "returned", d) : d \in AdapterDecisions}

\* A variant whose rescue does not ask how far the conversation got.
HeuristicRescueAnyStage(U, L, text, peer_id) ==
    IF looks_like_payment_intent(text) THEN MoveConfirmation ELSE Manual(None)

\* Step 3 and 4 of route_full: the payment-intent rescue, else manual.
HeuristicRescue(U, L, text, peer_id) ==
    LET usedKeys == IF peer_id # NoPeer THEN get_used_templates(U, peer_id) ELSE {}
        lastKey == IF peer_id # NoPeer THEN get_last_template(L, peer_id) ELSE None
    IN  IF looks_like_payment_intent(text)
           /\ ("paylink" \in usedKeys \/ lastKey \in {"paylink", "pricelist"})
            THEN MoveConfirmation
            ELSE Manual(None)

\* A variant in which a manual answer of the classifier is not final.
ClassifierAnswerFinalUnlessManual(decision) == decision.action \notin {"manual", "move_manual"}

\* Whatever the classifier call returns is returned by route_full at once.
ClassifierAnswerFinal(decision) == TRUE

\* A variant in which an exception of the classifier call leaves route_full.
ClassifierStageRaises(U, L, text, peer_id, call) ==
    IF call.outcome = "returned" THEN call.decision
    ELSE IF call.outcome = "raised" THEN NoDecision
    ELSE HeuristicRescue(U, L, text, peer_id)

\* route_full from its classifier call on; the ledger is read again after a
\* call that raised.
ClassifierStage(U, L, text, peer_id, call) ==
    IF call.outcome = "returned" /\ ClassifierAnswerFinal(call.decision)
        THEN call.decision
        ELSE HeuristicRescue(U, L, text, peer_id)

route_full(U, L, text, rules, peer_id, call) ==
    LET fast == route_fast(U, L, text, rules, peer_id)
    IN  IF fast.action # "manual" THEN fast
        ELSE ClassifierStage(U, L, text, peer_id, call)

\* The inputs of a route_full call, the ledger it was made on, what its
\* route_fast call returned (fast), its classifier call and what it returned.
RouteRecord(text, rules, peer_id, fast, call, decision) ==
    [pc |-> "done", text |-> text, rules |-> rules, peer |-> peer_id,
     ledger |-> <<used, last>>, fast |-> fast, call |-> call, decision |-> decision]

\* A call of route_full: it calls route_fast, and the classifier only after a
\* manual fast decision.
RouteFull ==
    /\ rt.pc = "idle"
    /\ \E text \in Texts, rules \in RuleSets, p \in RouterPeers, kind \in ClassifierKinds :
        LET fast == route_fast(used, last, text, RulesOf(rules), p)
            usedKeys == IF p # NoPeer THEN get_used_templates(used, p) ELSE {}
        IN  \E call \in IF fast.action # "manual"
                            THEN {NotCalled}
                            ELSE ClassifierCalls(kind, usedKeys) :
                rt' = RouteRecord(text, rules, p, fast, call,
                                  route_full(used, last, text, RulesOf(rules), p, call))
    /\ UNCHANGED <<ledgerVars, ledgerOps, notRouter>>

\* The caller has taken the decision.
RouteDone ==
    /\ rt.pc = "done"
    /\ rt' = IdleRoute
    /\ UNCHANGED <<ledgerVars, ledgerOps, notRouter>>

NextRouter ==
    \/ mark_template_used
    \/ set_last_template
    \/ reset_peer_history
    \/ RouteFull
    \/ RouteDone

\* The router and the ledger never look at the remote directory: it starts empty.
InitRouterSpec ==
    /\ remote = Placement(0, 0, 0, 0)
    /\ InitFM
    /\ InitEnsure
    /\ InitApi
    /\ InitRouter
    /\ InitLive
    /\ InitSim
    /\ reg = NotRegistered

SpecRouter == InitRouterSpec /\ [][NextRouter]_vars

\* The ledger entry of the peer a router call was made for.
UsedAtCall == IF rt.peer = NoPeer THEN {} ELSE used[rt.peer]

\* C4: route_fast never returns send_template with greeting or pricelist for a
\* peer whose used-template set already holds that key, whatever the text, the
\* rule set and the last-sent template.
C4_FastNeverRepeats ==
    (rt.pc = "done" /\ rt.fast.action = "send_template"
        /\ rt.fast.payload.key \in {"greeting", "pricelist"})
    => rt.fast.payload.key \notin UsedAtCall

\* C10 as stated: when route_fast returns manual and the classifier's answer
\* is manual, route_full goes on to the payment-intent heuristic: it returns
\* move_confirmation if the heuristic fires and manual only if it does not.
C10_ManualGoesToHeuristic ==
    (rt.pc = "done" /\ rt.fast.action = "manual"
        /\ rt.call.outcome = "returned"
        /\ rt.call.decision.action \in {"manual", "move_manual"})
    => (rt.decision.action = "move_confirmation"
            <=> HeuristicRescue(used, last, rt.text, rt.peer) = MoveConfirmation)

\* C10 as amended: a decision the classifier call returns, manual or not, is
\* route_full's decision; the payment-intent heuristic decides only when the
\* fast decision is manual and the classifier is absent or its call raised.
C10_ClassifierAnswerIsFinal ==
    (rt.pc = "done" /\ rt.fast.action = "manual") =>
        IF rt.call.outcome = "returned"
            THEN rt.decision = rt.call.decision
            ELSE rt.decision = HeuristicRescue(used, last, rt.text, rt.peer)

\* C10's case: the classifier returned a manual move for a message on which
\* the heuristic would have moved the peer to confirmation.
C10_Witness ==
    /\ rt.pc = "done"
    /\ rt.call.outcome = "returned"
    /\ rt.call.decision.action = "move_manual"
    /\ HeuristicRescue(used, last, rt.text, rt.peer) = MoveConfirmation
    /\ rt.decision.action = "move_manual"

\* C12: when route_full's decision is a send_template that its raw-classifier
\* call returned, the key is one of the four template keys and is not in the
\* peer's used-template set.
C12_SendTemplateOnlyValidUnused ==
    (rt.pc = "done" /\ rt.call.kind = "llm" /\ rt.call.outcome = "returned"
        /\ rt.decision.action = "send_template")
    => (rt.decision.payload.key \in TemplateKeys
            /\ rt.decision.payload.key \notin UsedAtCall)

\* C13: when the classifier call raises, whatever the exception, route_full
\* returns a decision: move_confirmation from the payment-intent heuristic when
\* it fires, the manual default when it does not.
C13_FailureFallsBack ==
    (rt.pc = "done" /\ rt.call.outcome = "raised")
    => /\ rt.decision # NoDecision
       /\ rt.decision = HeuristicRescue(used, last, rt.text, rt.peer)
       /\ rt.decision \in {MoveConfirmation, Manual(None)}

\* The classifier raised for a payment message of a peer that has the paylink.
C13_Witness ==
    /\ rt.pc = "done"
    /\ rt.call.outcome = "raised"
    /\ rt.decision = MoveConfirmation
    /\ "paylink" \in UsedAtCall

\* The last-sent template of the peer a router call was made for.
LastAtCall == IF rt.peer = NoPeer THEN None ELSE last[rt.peer]

\* The rule categories in the order route_fast tests them.
CategoryOrder == <<"greeting", "pricelist", "paylink", "confirmation", "not_interested">>

\* The text matches the category of the rule set; the confirmation category
\* also matches on a literal "paid" or "sending".
CategoryMatches(c, text, rules) ==
    CASE c = "not_interested" -> \E pat \in rules.not_interested : pat \cap text # {}
      [] c = "confirmation" ->
            \/ "confirmation" \in DOMAIN rules.keywords
                /\ \E pat \in rules.keywords["confirmation"] : pat \cap text # {}
            \/ "paid" \in text
      [] OTHER -> c \in DOMAIN rules.keywords /\ \E pat \in rules.keywords[c] : pat \cap text # {}

\* The position in CategoryOrder of the first category the text matches (0: none).
FirstMatching(text, rules) ==
    LET hits == {i \in DOMAIN CategoryOrder : CategoryMatches(CategoryOrder[i], text, rules)}
    IN  IF hits = {} THEN 0 ELSE CHOOSE i \in hits : \A j \in hits : i <= j

\* What a category yields once it is the first to match.
CategoryOutcome(c, usedKeys) ==
    CASE c \in {"greeting", "pricelist"} ->
            IF c \in usedKeys
                THEN Decision("manual", Payload(None, None, "repeat_template"))
                ELSE Decision("send_template", Payload(c, None, None))
      [] c = "paylink" -> Decision("send_template", Payload("paylink", None, None))
      [] c = "confirmation" -> Decision("move_confirmation", Payload(None, "confirmation", None))
      [] c = "not_interested" -> Decision("move_timewaster", Payload(None, None, None))

\* C16: with a rule set that has keywords, route_fast's decision is the outcome
\* of the first category, in the order greeting, pricelist, paylink,
\* confirmation, not-interested, that the text matches; later categories do
\* not change it, and a used greeting gives the manual repeat outcome.
C16_FirstMatchWins ==
    (rt.pc = "done" /\ rt.rules # "none" /\ FirstMatching(rt.text, RulesOf(rt.rules)) # 0)
    => rt.fast = CategoryOutcome(CategoryOrder[FirstMatching(rt.text, RulesOf(rt.rules))],
                                 UsedAtCall)

\* A used greeting matched together with the not-interested category: manual.
C16_Witness ==
    /\ rt.pc = "done"
    /\ rt.rules = "tests"
    /\ rt.text = {"hey", "nah"}
    /\ "greeting" \in UsedAtCall
    /\ rt.fast.action = "manual"
    /\ rt.fast.payload.reason = "repeat_template"

\* C17: for a peer whose used set holds paylink, a text that matches a paylink
\* pattern and no greeting or pricelist pattern gets send_template(paylink),
\* from route_fast and from route, at every call.
C17_PaylinkRepeats ==
    (rt.pc = "done" /\ rt.rules = "tests" /\ "paylink" \in UsedAtCall
        /\ FirstMatching(rt.text, TestRules) = 3)
    => /\ rt.fast.action = "send_template"
       /\ rt.fast.payload.key = "paylink"
       /\ route(used, last, rt.text, TestRules, rt.peer).action = "send_template"
       /\ route(used, last, rt.text, TestRules, rt.peer).payload.key = "paylink"

\* The paylink is asked for again by a peer that already has it.
C17_Witness ==
    /\ rt.pc = "done"
    /\ rt.rules = "tests"
    /\ "paylink" \in UsedAtCall
    /\ last[rt.peer] = "paylink"
    /\ "how do i pay" \in rt.text
    /\ rt.fast.action = "send_template"
    /\ rt.fast.payload.key = "paylink"

\* The text matches one of the built-in lists used when the rule set has no
\* keywords.
BuiltinMatches(text) ==
    text \cap (BuiltinGreeting \cup BuiltinPricelist \cup BuiltinPaylink
                \cup BuiltinTimewaster \cup BuiltinConfirmation) # {}

\* C18: an affirmation that matches no category (and, under a rule set with no
\* keywords, no built-in list) advances greeting to pricelist and pricelist to
\* paylink and is manual for any other or no last template, paylink included;
\* an affirmation that also matches a category gets that category's outcome.
C18_AffirmationAdvances ==
    (rt.pc = "done" /\ "yes" \in rt.text)
    => IF FirstMatching(rt.text, RulesOf(rt.rules)) # 0
           THEN rt.fast = CategoryOutcome(
                    CategoryOrder[FirstMatching(rt.text, RulesOf(rt.rules))], UsedAtCall)
       ELSE \/ rt.rules = "none" /\ BuiltinMatches(rt.text)
            \/ rt.fast =
                 CASE LastAtCall = "greeting" ->
                        Decision("send_template", Payload("pricelist", None, None))
                   [] LastAtCall = "pricelist" ->
                        Decision("send_template", Payload("paylink", None, None))
                   [] OTHER -> Decision("manual", Payload(None, None, None))

\* An affirmation after the paylink: manual.
C18_Witness ==
    /\ rt.pc = "done"
    /\ rt.text = {"yes"}
    /\ LastAtCall = "paylink"
    /\ rt.fast.action = "manual"

\* C19: route_full returns move_confirmation from the payment-intent heuristic
\* only when no classifier is given or its call raised, and only for a peer
\* whose used set holds paylink or whose last template is paylink or
\* pricelist; never for a peer with an empty ledger.
C19_RescueOnlyAfterPaymentStage ==
    (rt.pc = "done" /\ rt.fast.action = "manual" /\ rt.decision.action = "move_confirmation"
        /\ rt.decision # rt.call.decision)
    => /\ rt.call.outcome \in {"none", "raised"}
       /\ "here you go" \in rt.text
       /\ "paylink" \in UsedAtCall \/ LastAtCall \in {"paylink", "pricelist"}

\* No classifier is given and the heuristic fires on the last template alone.
C19_Witness ==
    /\ rt.pc = "done"
    /\ rt.call.outcome = "none"
    /\ rt.fast.action = "manual"
    /\ rt.decision.action = "move_confirmation"
    /\ "paylink" \notin UsedAtCall
    /\ LastAtCall = "pricelist"

\* The current ledger with the entries of every peer other than p wiped.
LedgerOf(p) ==
    <<[q \in Peers |-> IF q = p THEN used[q] ELSE {}],
      [q \in Peers |-> IF q = p THEN last[q] ELSE None]>>

\* C20: route_fast's decision is a function of the text, the rule set and the
\* peer's own ledger entries: whatever the other peers' entries are, it is the
\* decision taken with those entries wiped; and a router call leaves every
\* peer's used set and last template as they were.
C20_RouteFastIsPure ==
    rt.pc = "done" =>
        /\ rt.fast = route_fast(LedgerOf(rt.peer)[1], LedgerOf(rt.peer)[2],
                                rt.text, RulesOf(rt.rules), rt.peer)
        /\ <<used, last>> = rt.ledger

\* A decision that depends on the peer's ledger, taken while the other peers'
\* ledger entries differ from the peer's.
C20_Witness ==
    /\ rt.pc = "done"
    /\ rt.peer # NoPeer
    /\ rt.fast.payload.reason = "repeat_template"
    /\ \E q \in Peers \ {rt.peer} : used[q] # used[rt.peer] /\ last[q] # last[rt.peer]

\* C34: with an empty rule set, a text that holds a built-in confirmation
\* keyword and a built-in not-interested keyword, and no keyword of the
\* categories before them, is routed to move_confirmation by route_fast.
C34_BuiltinConfirmationFirst ==
    (/\ rt.pc = "done" /\ rt.rules = "none"
     /\ rt.text \cap BuiltinConfirmation # {}
     /\ rt.text \cap BuiltinTimewaster # {}
     /\ rt.text \cap (BuiltinGreeting \cup BuiltinPricelist \cup BuiltinPaylink) = {})
        => rt.fast.action = "move_confirmation"

(***************************************************************************)
(* The live handler: on_new_message of src/telegram/handlers.py.  One task *)
(* handles one incoming message.  Every await of the handler is a point    *)
(* where the other tasks may run; the statements between two awaits are    *)
(* one step.  The module-level move_to_bot, move_to_manual,                *)
(* move_to_timewaster and move_to_confirmation the handler imports are not *)
(* in core/folder_manager.py: a move is a remote call that, when it        *)
(* succeeds, leaves the peer in the target folder only.                    *)
(***************************************************************************)

\* The messages the live handler receives: at most one phrase each.
LiveTexts == {t \in Texts : Cardinality(t) <= 1}

\* What the handler's steps leave alone.
notLive == <<rtVars, remote, fmVars, efVars, simVars, apiVars>>

\* The task has left the handler: it returned, or an exception ended it.
Left(task, pc) ==
    [task EXCEPT !.pc = pc, !.text = {}, !.call = NotCalled, !.calls = 0,
                 !.key = None, !.target = None, !.seen = None]

\* A folder move has been issued and is awaited.
Moving(task, target) == [Left(task, "moving") EXCEPT !.target = target]

\* The reply is being sent (get_me, mark_read, type_then_send); target is the
\* folder the peer is moved to afterwards.
Sending(task, key, target) == [Left(task, "sending") EXCEPT !.key = key, !.target = target]

\* The branches of the handler below the manual branch, up to their first
\* await.  render_template raises for a key that has no template.
Branch(task, d, U) ==
    IF d.action = "move_timewaster" THEN Moving(task, "TIMEWASTER")
    ELSE IF d.action = "move_confirmation"
        THEN IF d.payload.send_key # None
                /\ ~template_already_used(U, task.peer, d.payload.send_key)
                 THEN Sending(task, d.payload.send_key, "CONFIRMATION")
                 ELSE Moving(task, "CONFIRMATION")
    ELSE IF d.action = "send_template"
        THEN IF d.payload.key \notin TemplateKeys THEN Left(task, "failed")
             ELSE IF template_already_used(U, task.peer, d.payload.key) THEN Left(task, "done")
             ELSE Sending(task, d.payload.key, "BOT")
    \* no branch tests for move_manual: the handler ends with nothing done
    ELSE Left(task, "no_branch")

\* The handler from route_full's return to its next await.
Dispatch(task, d, hasLlm, U) ==
    IF d.action = "manual"
        THEN IF hasLlm THEN [Left(task, "chooser") EXCEPT !.calls = task.calls + 1]
                       ELSE Moving(task, "MANUAL")
        ELSE Branch(task, d, U)

\* A private message arrives; the handler awaits its sender.
Arrive(t) ==
    /\ tasks[t].pc = "none"
    /\ \E p \in Peers, is_private \in BOOLEAN :
        tasks' = [tasks EXCEPT ![t] =
                    IF is_private THEN [IdleTask EXCEPT !.pc = "sender", !.peer = p,
                                                        !.seen = folder[p]]
                                  ELSE [IdleTask EXCEPT !.pc = "done"]]
    /\ UNCHANGED <<permits, peerLock, folder, folder_cache, ledgerVars, reg, notLive>>

\* async with rps_lock, lock: first the global permit ...
AcquirePermit(t) ==
    /\ tasks[t].pc = "sender"
    /\ permits > 0
    /\ permits' = permits - 1
    /\ tasks' = [tasks EXCEPT ![t].pc = "has_permit"]
    /\ UNCHANGED <<peerLock, folder, folder_cache, ledgerVars, reg, notLive>>

\* ... then the lock of the peer.
AcquireLock(t) ==
    /\ tasks[t].pc = "has_permit"
    /\ peerLock[tasks[t].peer] = NoTask
    /\ peerLock' = [peerLock EXCEPT ![tasks[t].peer] = t]
    /\ tasks' = [tasks EXCEPT ![t].pc = "locked"]
    /\ UNCHANGED <<permits, folder, folder_cache, ledgerVars, reg, notLive>>

\* A guarded block that keeps the peer's lock when it is left.
KeptLock(locks, p) == locks

\* Leaving "async with rps_lock, lock" releases the peer's lock.
ReleasedLock(locks, p) == [locks EXCEPT ![p] = NoTask]

\* The guarded block: an empty cache is replaced by build_folder_cache's, which
\* is empty too; then the lock and the permit are released.
GuardedCacheCheck(t) ==
    /\ tasks[t].pc = "locked"
    /\ folder_cache' = IF folder_cache = {} THEN {} ELSE folder_cache
    /\ peerLock' = ReleasedLock(peerLock, tasks[t].peer)
    /\ permits' = permits + 1
    /\ tasks' = [tasks EXCEPT ![t].pc = "route"]
    /\ UNCHANGED <<folder, ledgerVars, reg, notLive>>

\* route_full up to its classifier call, or to its return when it makes none.
\* The text is read again only after a call that raised.
RouteStart(t) ==
    /\ tasks[t].pc = "route"
    /\ \E text \in LiveTexts :
        LET p == tasks[t].peer
            kind == IF reg.llm THEN "llm" ELSE "absent"
            fast == route_fast(used, last, text, RulesOf(reg.rules), p)
        IN  IF fast.action = "manual" /\ reg.llm
                THEN \E call \in ClassifierCalls(kind, get_used_templates(used, p)) :
                        tasks' = [tasks EXCEPT ![t] =
                            [@ EXCEPT !.pc = "classifying", !.call = call, !.calls = 1,
                                      !.text = IF call.outcome = "raised" THEN text ELSE {}]]
                ELSE tasks' = [tasks EXCEPT ![t] =
                        Dispatch(@, route_full(used, last, text, RulesOf(reg.rules), p, NotCalled),
                                 reg.llm, used)]
    /\ UNCHANGED <<permits, peerLock, folder, folder_cache, ledgerVars, reg, notLive>>

\* The classifier call of route_full returns or raises; route_full returns and
\* the handler goes on to its next await.
RouteFinish(t) ==
    /\ tasks[t].pc = "classifying"
    /\ tasks' = [tasks EXCEPT ![t] =
            Dispatch(@, ClassifierStage(used, last, @.text, @.peer, @.call), reg.llm, used)]
    /\ UNCHANGED <<permits, peerLock, folder, folder_cache, ledgerVars, reg, notLive>>

\* The handler's own choose_template_or_move call, made with no used
\* templates, after a manual decision: an LLMReject becomes move_manual, any
\* other exception ends the task.
ChooserDone(t) ==
    /\ tasks[t].pc = "chooser"
    /\ \/ \E r \in RawResults, m \in LlmModes :
            tasks' = [tasks EXCEPT ![t] =
                Branch(@, choose_template_or_move(r, {}, Threshold, m), used)]
       \/ \E raised \in {"LLMReject", "other"} :
            tasks' = [tasks EXCEPT ![t] =
                IF raised = "LLMReject" THEN Branch(@, MoveManual(None), used)
                                        ELSE Left(@, "failed")]
    /\ UNCHANGED <<permits, peerLock, folder, folder_cache, ledgerVars, reg, notLive>>

\* A handler that writes the ledger before it awaits the send: the ledger is
\* written whether the send completes or raises.
SendDoneMarkingFirst(t) ==
    /\ tasks[t].pc = "sending"
    /\ used' = [used EXCEPT ![tasks[t].peer] = @ \cup {tasks[t].key}]
    /\ last' = [last EXCEPT ![tasks[t].peer] = tasks[t].key]
    /\ \E answer \in RequestAnswers :
        tasks' = [tasks EXCEPT ![t] = IF answer = "ok" THEN [@ EXCEPT !.pc = "moving"]
                                                       ELSE Left(@, "failed")]
    /\ UNCHANGED <<permits, peerLock, folder, folder_cache, reg, notLive>>

\* The send completes: the ledger is written and the folder move issued; or
\* it raises.
SendDone(t) ==
    /\ tasks[t].pc = "sending"
    /\ \E answer \in RequestAnswers :
        IF answer = "ok"
            THEN /\ used' = [used EXCEPT ![tasks[t].peer] = @ \cup {tasks[t].key}]
                 /\ last' = [last EXCEPT ![tasks[t].peer] = tasks[t].key]
                 /\ tasks' = [tasks EXCEPT ![t].pc = "moving"]
            ELSE /\ tasks' = [tasks EXCEPT ![t] = Left(@, "failed")]
                 /\ UNCHANGED ledgerVars
    /\ UNCHANGED <<permits, peerLock, folder, folder_cache, reg, notLive>>

\* The folder move completes: the peer is in the target folder and the cache
\* records it; or it raises.
MoveFinished(t) ==
    /\ tasks[t].pc = "moving"
    /\ \E answer \in RequestAnswers :
        IF answer = "ok"
            THEN /\ folder' = [folder EXCEPT ![tasks[t].peer] = tasks[t].target]
                 /\ folder_cache' = folder_cache \cup {<<tasks[t].target, tasks[t].peer>>}
                 /\ tasks' = [tasks EXCEPT ![t] = Left(@, "done")]
            ELSE /\ tasks' = [tasks EXCEPT ![t] = Left(@, "failed")]
                 /\ UNCHANGED <<folder, folder_cache>>
    /\ UNCHANGED <<permits, peerLock, ledgerVars, reg, notLive>>

NextLive ==
    \/ \E t \in Tasks : Arrive(t)
    \/ \E t \in Tasks : AcquirePermit(t)
    \/ \E t \in Tasks : AcquireLock(t)
    \/ \E t \in Tasks : GuardedCacheCheck(t)
    \/ \E t \in Tasks : RouteStart(t)
    \/ \E t \in Tasks : RouteFinish(t)
    \/ \E t \in Tasks : ChooserDone(t)
    \/ \E t \in Tasks : SendDone(t)
    \/ \E t \in Tasks : MoveFinished(t)

\* register_handlers is called with a rule set and with or without an LLM.
InitLiveSpec ==
    /\ remote = Placement(0, 0, 0, 0)
    /\ InitFM
    /\ InitEnsure
    /\ InitApi
    /\ InitRouter
    /\ InitLive
    /\ InitSim
    /\ reg \in [rules : RuleSets, llm : BOOLEAN]

SpecLive == InitLiveSpec /\ [][NextLive]_vars

\* The steps of one message's task after its arrival.
LiveStep(t) ==
    \/ AcquirePermit(t)
    \/ AcquireLock(t)
    \/ GuardedCacheCheck(t)
    \/ RouteStart(t)
    \/ RouteFinish(t)
    \/ ChooserDone(t)
    \/ SendDone(t)
    \/ MoveFinished(t)

\* The event loop runs every task that can go on, and every remote call and
\* classifier call returns or raises.
SpecLiveFair == SpecLive /\ \A t \in Tasks : WF_vars(LiveStep(t))

\* The tasks whose outbound send or folder move is in flight.
InFlight == {t \in Tasks : tasks[t].pc \in {"sending", "moving"}}

HoldsPermit(t) == tasks[t].pc \in {"has_permit", "locked"}

\* The handler of the message is over: it returned or an exception ended it.
LiveOver == {"done", "failed", "no_branch"}

\* C26: a task that has failed holds neither a peer's lock nor a permit (locks
\* and permits are held only by tasks inside the guarded block), and whenever
\* some message has failed, every other message that has arrived, of the same
\* peer or of another, reaches the end of its handler.
C26_FailureIsContained ==
    /\ [](/\ \A p \in Peers :
                peerLock[p] # NoTask => tasks[peerLock[p]].pc = "locked" /\ tasks[peerLock[p]].peer = p
          /\ permits = RpsPermits - Cardinality({t \in Tasks : HoldsPermit(t)}))
    /\ \A t \in Tasks :
            ((\E u \in Tasks \ {t} : tasks[u].pc = "failed") /\ tasks[t].pc \notin LiveOver \cup {"none"})
                ~> (tasks[t].pc \in LiveOver)

\* One message of a peer has failed and another message of the same peer has
\* been handled to its end, the peer moved to a folder; every lock is free
\* and every permit back.
C26_Witness ==
    /\ \E t, u \in Tasks :
            /\ tasks[u].pc = "failed"
            /\ tasks[t].pc = "done"
            /\ tasks[t].peer = tasks[u].peer
            /\ tasks[t].peer # NoPeer
            /\ folder[tasks[t].peer] # None
    /\ permits = RpsPermits
    /\ \A p \in Peers : peerLock[p] = NoTask

C32_LedgerChangesOnlyOnSend ==
    [][ \A p \in Peers :
            (used'[p] # used[p] \/ last'[p] # last[p]) =>
                \E t \in Tasks :
                    /\ tasks[t].pc = "sending" /\ tasks[t].peer = p
                    /\ tasks'[t].pc = "moving"
                    /\ used'[p] = used[p] \cup {tasks[t].key}
                    /\ last'[p] = tasks[t].key
                    /\ \A q \in Peers \ {p} : used'[q] = used[q] /\ last'[q] = last[q] ]_vars

\* A send has completed for a peer whose ledger already held another key, and
\* another message's send has failed.
C32_Witness ==
    \E t, u \in Tasks :
        /\ tasks[t].pc = "moving" /\ tasks[t].key # None
        /\ tasks[t].key \in used[tasks[t].peer]
        /\ last[tasks[t].peer] = tasks[t].key
        /\ used[tasks[t].peer] # {tasks[t].key}
        /\ tasks[u].pc = "failed"

\* C37: no template is sent twice to one peer: two messages of one peer
\* never have a send of the same template under way together.
C37_NoTemplateSentTwice ==
    \A t, u \in Tasks :
        (t # u /\ tasks[t].pc = "sending" /\ tasks[u].pc = "sending"
            /\ tasks[t].peer = tasks[u].peer)
        => tasks[t].key # tasks[u].key

\* C39: a message that arrives when its peer has been moved to MANUAL,
\* TIMEWASTER or CONFIRMATION starts no send and no move of the peer to BOT.
C39_TerminalPeerGetsNothing ==
    [][ \A t \in Tasks :
            tasks[t].seen \in {"MANUAL", "TIMEWASTER", "CONFIRMATION"}
                => /\ tasks'[t].pc # "sending"
                   /\ ~(tasks'[t].pc = "moving" /\ tasks'[t].target = "BOT") ]_vars

\* C5: for two messages of one peer, no send, ledger write or folder move of
\* the later one happens before the routing, send, ledger write and move of
\* the earlier one are over: two tasks of one peer never have a send or a
\* move in flight together.
C5_PeerSequenceSerialised ==
    \A t1, t2 \in InFlight :
        tasks[t1].peer = tasks[t2].peer => t1 = t2

\* C6: at most RpsPermits sends and moves are in flight, each made by a task
\* that holds a permit.
C6_CallsHoldPermit ==
    /\ Cardinality(InFlight) <= RpsPermits
    /\ \A t \in InFlight : HoldsPermit(t)

\* C14: for one incoming message the classifier is invoked at most once, also
\* when its first invocation failed.
C14_ClassifierAtMostOnce == \A t \in Tasks : tasks[t].calls <= 1

\* C15: a message whose final decision is manual, as the router default or as
\* the classifier's manual move, has its conversation moved to MANUAL: no task
\* ends on such a decision without issuing the move.
C15_ManualIsMoved == \A t \in Tasks : tasks[t].pc # "no_branch"

(***************************************************************************)
(* The offline harness: SimEngine (src/core/sim.py), which routes with     *)
(* route (src/core/router.py), and direct calls of the classifier wrappers *)
(* choose_template_or_move and classify_and_maybe_reply                    *)
(* (src/core/classifier.py).  SimEngine.process runs to its classifier     *)
(* call in one step and from the classifier's answer to its end in one.    *)
(***************************************************************************)

\* What the harness steps leave alone.
notSim == <<remote, fmVars, efVars, ledgerVars, rtVars, liveVars, apiVars>>

\* How many messages one engine is given.
MaxSimMessages == 2

\* The arguments an engine is built with.
SimConfigs == [welcome : BOOLEAN, rules : RuleSets, classifier : BOOLEAN, simulate_read : {TRUE}]

\* The reply entry of a classifier answer: none, empty, or a text.
Replies == {None, "", "sure"}

\* What the engine's classifier function answers: the entries the engine reads.
SimAnswers == [confidence : Confidences, reply : Replies]

\* One SimEvent: its kind and the entries of its payload (ts is not modelled).
SimEvent(kind, peer_id) ==
    [kind |-> kind, peer |-> peer_id, text |-> {}, decision |-> NoDecision,
     folder |-> None, template |-> None, confidence |-> 0, reply |-> None, error |-> FALSE]

\* A process that ignores messages in TIMEWASTER and CONFIRMATION only.
SimTerminalWithoutManual == {"TIMEWASTER", "CONFIRMATION"}

\* The folders in which process ignores a message.
SimTerminal == {"MANUAL", "TIMEWASTER", "CONFIRMATION"}

\* peer.folder = f followed by the move_folder event.
SimMove(e, p, f) ==
    [e EXCEPT !.folder[p] = f,
              !.events = Append(@, [SimEvent("move_folder", p) EXCEPT !.folder = f]),
              !.pc = "idle", !.outcome = "returned"]

\* An engine that logs the send before the typing.
SimSendThenTyping(e, p, reply, template) ==
    [e EXCEPT !.events = @ \o <<[SimEvent("send", p) EXCEPT !.reply = reply, !.template = template],
                                SimEvent("typing", p)>>,
              !.pc = "idle", !.outcome = "returned"]

\* The typing and send events of one outbound message.
SimSend(e, p, reply, template) ==
    [e EXCEPT !.events = @ \o <<SimEvent("typing", p),
                                [SimEvent("send", p) EXCEPT !.reply = reply, !.template = template]>>,
              !.pc = "idle", !.outcome = "returned"]

\* incoming and process up to the classifier call or the end.  The engine
\* calls route without a peer; a send_template decision has no "template_key"
\* entry, so the template rendered is "welcome", and render_template raises
\* KeyError when templates has none.
SimIncoming ==
    /\ sim.pc = "idle"
    /\ clf = NoWrapperCall
    /\ Cardinality({i \in DOMAIN sim.events : sim.events[i].kind = "incoming"}) < MaxSimMessages
    /\ \E p \in Peers, text \in LiveTexts :
        LET f == IF sim.folder[p] = "absent" THEN "BOT" ELSE sim.folder[p]
            e1 == [sim EXCEPT !.folder[p] = f,
                              !.events = Append(@, [SimEvent("incoming", p) EXCEPT !.text = text])]
            d == route(used, last, text, RulesOf(sim.cfg.rules), NoPeer)
            e2 == [e1 EXCEPT !.events = @ \o
                        (IF sim.cfg.simulate_read THEN <<SimEvent("read", p)>> ELSE <<>>)
                        \o <<[SimEvent("route", p) EXCEPT !.decision = d]>>]
        IN  sim' =
                IF f \in SimTerminal
                    THEN [e1 EXCEPT !.events = Append(@, [SimEvent("ignored", p) EXCEPT !.folder = f]),
                                    !.outcome = "returned"]
                ELSE IF d.action = "send_template"
                    THEN IF sim.cfg.welcome
                             THEN SimSend(e2, p, "welcome", "welcome")
                             ELSE [e2 EXCEPT !.outcome = "raised"]
                ELSE IF d.action = "move_timewaster" THEN SimMove(e2, p, "TIMEWASTER")
                ELSE IF d.action = "move_confirmation" THEN SimMove(e2, p, "CONFIRMATION")
                ELSE IF sim.cfg.classifier
                    THEN [e2 EXCEPT !.events = Append(@, SimEvent("llm_call", p)),
                                    !.pc = "awaiting", !.peer = p, !.text = text]
                ELSE SimMove(e2, p, "MANUAL")
    /\ UNCHANGED <<clf, notSim>>

\* process from the classifier's answer on: the classifier raised, or it
\* answered and its reply is sent only at or above the threshold.
SimClassified ==
    /\ sim.pc = "awaiting"
    /\ LET p == sim.peer
           e0 == [sim EXCEPT !.peer = NoPeer, !.text = {}]
       IN  \/ sim' = SimMove([e0 EXCEPT !.events =
                                Append(@, [SimEvent("llm_result", p) EXCEPT !.error = TRUE])],
                             p, "MANUAL")
           \/ \E r \in SimAnswers :
                LET e1 == [e0 EXCEPT !.events = Append(@,
                              [SimEvent("llm_result", p) EXCEPT !.confidence = r.confidence,
                                                                !.reply = r.reply])]
                IN  sim' = IF r.reply \notin {None, ""} /\ r.confidence >= Threshold
                               THEN SimSend(e1, p, r.reply, None)
                               ELSE SimMove(e1, p, "MANUAL")
    /\ UNCHANGED <<clf, notSim>>

\* What a classifier's classify() answers to the wrappers: the entries of
\* RawResults, whether it has an "intent" or a "reply" entry (shape "old"),
\* and its reply.
WrapperResults ==
    [action : ClassifierActions, template_key : ClassifierKeys, confidence : Confidences,
     shape : {"old", "new"}, reply : Replies]

\* A variant that returns the reply whatever the confidence.
classify_and_maybe_replyUnchecked(result, threshold) ==
    IF result.shape = "old" /\ result.reply \notin {None, ""} THEN result.reply ELSE None

\* classify_and_maybe_reply: the reply it returns (None: no reply).
classify_and_maybe_reply(result, threshold) ==
    IF result.shape = "old"
        THEN IF result.confidence < threshold THEN None
             ELSE IF result.reply \notin {None, ""} THEN result.reply
             ELSE None
        ELSE None

\* A direct call of choose_template_or_move with a classifier that answers.
ChooserCall ==
    /\ sim = NewEngine(sim.cfg)
    /\ clf = NoWrapperCall
    /\ \E r \in WrapperResults, U \in SUBSET {"pricelist", "paylink"}, m \in LlmModes :
        clf' = [fn |-> "choose_template_or_move", result |-> r, used |-> U, mode |-> m,
                decision |-> choose_template_or_move(r, U, Threshold, m), reply |-> None]
    /\ UNCHANGED <<sim, notSim>>

\* A direct call of classify_and_maybe_reply with a classifier that answers.
ReplyCall ==
    /\ sim = NewEngine(sim.cfg)
    /\ clf = NoWrapperCall
    /\ \E r \in WrapperResults :
        clf' = [fn |-> "classify_and_maybe_reply", result |-> r, used |-> {}, mode |-> None,
                decision |-> NoDecision, reply |-> classify_and_maybe_reply(r, Threshold)]
    /\ UNCHANGED <<sim, notSim>>

\* The caller has taken the wrapper's answer.
WrapperDone ==
    /\ clf # NoWrapperCall
    /\ clf' = NoWrapperCall
    /\ UNCHANGED <<sim, notSim>>

NextSim ==
    \/ SimIncoming
    \/ SimClassified
    \/ ChooserCall
    \/ ReplyCall
    \/ WrapperDone

InitSimSpec ==
    /\ remote = Placement(0, 0, 0, 0)
    /\ InitFM
    /\ InitEnsure
    /\ InitApi
    /\ InitRouter
    /\ InitLive
    /\ reg = NotRegistered
    /\ sim \in {NewEngine(c) : c \in SimConfigs}
    /\ clf = NoWrapperCall

SpecSim == InitSimSpec /\ [][NextSim]_vars

\* The events of the message that event i belongs to: from the incoming
\* event at or before i up to the next incoming event.
SameMessage(i, j) ==
    /\ j \in DOMAIN sim.events
    /\ ~ \E k \in DOMAIN sim.events :
            /\ sim.events[k].kind = "incoming"
            /\ (i < k /\ k <= j) \/ (j < k /\ k <= i)

\* C11: a classifier answer with a confidence below the threshold, whatever
\* action, template key and reply it carries, leads to no outbound message:
\* choose_template_or_move returns a manual move, classify_and_maybe_reply
\* returns no reply, and the SimEngine log holds no send event for the message.
C11_LowConfidenceNeverSends ==
    /\ (clf.fn = "choose_template_or_move" /\ clf.result.confidence < Threshold)
            => clf.decision.action = "move_manual"
    /\ (clf.fn = "classify_and_maybe_reply" /\ clf.result.confidence < Threshold)
            => clf.reply = None
    /\ \A i \in DOMAIN sim.events :
            (sim.events[i].kind = "llm_result" /\ ~sim.events[i].error
                    /\ sim.events[i].confidence < Threshold)
                => \A j \in DOMAIN sim.events :
                        SameMessage(i, j) => sim.events[j].kind # "send"

\* A low-confidence answer carrying a reply has been processed: the peer is
\* moved to MANUAL.
C11_Witness ==
    /\ sim.pc = "idle"
    /\ \E i \in DOMAIN sim.events :
        /\ sim.events[i].kind = "llm_result"
        /\ sim.events[i].confidence < Threshold
        /\ sim.events[i].reply = "sure"
        /\ i < Len(sim.events)
        /\ sim.events[i + 1].kind = "move_folder"
        /\ sim.events[i + 1].folder = "MANUAL"

\* C36: when move_to_folder has handed a failed folder mutation back to its
\* caller, the cache lists no member that the remote directory does not
\* list (or holds nothing).
C36_CacheNotAheadAfterFailure ==
    (fm.pc = "raised" /\ upd.pc = "raised" /\ upd.sent > 0)
        => \/ cache = NoCache
           \/ \A f \in FilterIds, p \in Peers :
                p \in cache[f].peers => p \in remote[f].peers

\* C38: calls of move_to_folder for different peers do not undo each other:
\* no step of a move changes which folders list a peer other than the
\* move's own, and a move that returns leaves its peer in its target folder.
C38_NoLostMembership ==
    /\ [][ \A f \in FilterIds, q \in Peers :
                (q \in remote[f].peers) # (q \in remote'[f].peers) => q = fm.peer ]_vars
    /\ [](fm.pc = "returned" =>
            \E f \in FilterIds : remote[f].title = fm.title /\ fm.peer \in remote[f].peers)

\* The lowest id of the range that no folder of the directory occupies (0: none).
LowestFreeId(filters) ==
    IF \E f \in FilterIds : filters[f] = NoFilter
    THEN CHOOSE f \in FilterIds :
            /\ filters[f] = NoFilter
            /\ \A g \in FilterIds : filters[g] = NoFilter => f <= g
    ELSE 0

\* C25: a managed title that is missing from the directory is created at the
\* lowest id no folder occupies, a step of a move never changes the title of
\* a folder that exists, and a title that has an id keeps it.
C25_CreatedAtLowestFreeId ==
    [][ /\ \A t \in ManagedTitles :
            /\ (_find_by_title(remote, t) = 0 /\ _find_by_title(remote', t) # 0)
                    => _find_by_title(remote', t) = LowestFreeId(remote)
            /\ _find_by_title(remote, t) # 0
                    => _find_by_title(remote', t) = _find_by_title(remote, t)
        /\ \A f \in FilterIds :
            remote[f] # NoFilter => remote'[f].title = remote[f].title ]_vars

\* C30: while a move of a peer that was in a managed folder at its start is
\* under way, the peer is in at least one managed folder.
C30_NeverInNoFolder ==
    (fm.pc # "idle" /\ fm.pre # {}) => ManagedTitlesOf(remote, fm.peer) # {}

\* The texts of the peer's incoming events and the templates of its send
\* events, in log order.
SimTextsOf(p) ==
    LET inc == SelectSeq(sim.events, LAMBDA e : e.kind = "incoming" /\ e.peer = p)
    IN  [i \in DOMAIN inc |-> inc[i].text]

SimSendsOf(p) ==
    LET snd == SelectSeq(sim.events, LAMBDA e : e.kind = "send" /\ e.peer = p)
    IN  [i \in DOMAIN snd |-> snd[i].template]

\* C21: a fresh peer that writes a greeting and then a bare affirmation gets
\* exactly two sends, template greeting first and template pricelist second.
C21_GreetingThenPricelist ==
    \A p \in Peers :
        (sim.pc = "idle" /\ SimTextsOf(p) = <<{"hey"}, {"yes"}>>)
            => SimSendsOf(p) = <<"greeting", "pricelist">>

\* The folder the peer was in just before event i, read off the log: peers
\* start in BOT and change folder only with a move_folder event.
SimFolderBefore(i, p) ==
    LET moves == {j \in 1..(i - 1) : sim.events[j].kind = "move_folder" /\ sim.events[j].peer = p}
    IN  IF moves = {} THEN "BOT"
        ELSE sim.events[CHOOSE j \in moves : \A k \in moves : k <= j].folder

\* The events of the message that starts with the incoming event i, once it
\* has been processed to its end.
SimMessage(i) == {j \in DOMAIN sim.events : j > i /\ SameMessage(i, j)}

SimProcessed(i) ==
    /\ i \in DOMAIN sim.events
    /\ sim.events[i].kind = "incoming"
    /\ sim.pc = "idle" \/ \E k \in DOMAIN sim.events : k > i /\ sim.events[k].kind = "incoming"

\* C22: a payment-intent message of a peer in BOT whose earlier messages were
\* answered with templates, arriving while the classifier fails, logs a send
\* of the confirmation template and then a move_folder to CONFIRMATION, and
\* the peer ends in CONFIRMATION.
C22_RescueInSim ==
    \A i \in DOMAIN sim.events :
        (SimProcessed(i) /\ sim.events[i].text = {"here you go"}
            /\ SimFolderBefore(i, sim.events[i].peer) = "BOT"
            /\ \E j \in SimMessage(i) : sim.events[j].kind = "llm_result" /\ sim.events[j].error)
        => \E j, k \in SimMessage(i) :
                /\ j < k
                /\ sim.events[j].kind = "send" /\ sim.events[j].template = "confirmation"
                /\ sim.events[k].kind = "move_folder" /\ sim.events[k].folder = "CONFIRMATION"
                /\ SimFolderBefore(Len(sim.events) + 1, sim.events[i].peer) = "CONFIRMATION"

\* C23: a message that arrives for a peer in MANUAL, TIMEWASTER or
\* CONFIRMATION logs its incoming event and an ignored event and nothing else,
\* and the peer's folder stays what it was.
C23_TerminalIsIgnored ==
    /\ \A p \in Peers :
            sim.folder[p] # "absent" => sim.folder[p] = SimFolderBefore(Len(sim.events) + 1, p)
    /\ \A i \in DOMAIN sim.events :
            (sim.events[i].kind = "incoming"
                /\ SimFolderBefore(i, sim.events[i].peer) \in {"MANUAL", "TIMEWASTER", "CONFIRMATION"})
            => /\ i + 1 \in DOMAIN sim.events
               /\ sim.events[i + 1].kind = "ignored"
               /\ sim.events[i + 1].folder = SimFolderBefore(i, sim.events[i].peer)
               /\ SimMessage(i) = {i + 1}

\* A second message of a peer in CONFIRMATION has been ignored.
C23_Witness ==
    /\ Len(sim.events) > 2
    /\ sim.events[Len(sim.events)].kind = "ignored"
    /\ sim.events[Len(sim.events)].folder = "CONFIRMATION"
    /\ sim.folder[sim.events[Len(sim.events)].peer] = "CONFIRMATION"

\* The ledger that the sends the engine decided on before event i would have
\* produced for the peer: the keys of its send_template decisions, and the
\* last of them.
SimSentKeys(i, p) ==
    {j \in 1..(i - 1) : /\ sim.events[j].kind = "route" /\ sim.events[j].peer = p
                        /\ sim.events[j].decision.action = "send_template"}

SimLedgerBefore(i, p) ==
    LET sent == SimSentKeys(i, p)
    IN  <<[q \in Peers |-> IF q = p THEN {sim.events[j].decision.payload.key : j \in sent} ELSE {}],
          [q \in Peers |-> IF q = p /\ sent # {}
                THEN sim.events[CHOOSE j \in sent : \A k \in sent : k <= j].decision.payload.key
                ELSE None]>>

\* C24: the decision the engine takes for a message is the decision route_full
\* takes for it on the ledger that the peer's earlier sends produced, under
\* the same rule set (compared where route_full needs no classifier).
C24_SimDecidesAsRouteFull ==
    \A i \in DOMAIN sim.events :
        (sim.events[i].kind = "route"
            /\ sim.events[i - 2].kind = "incoming")
        => LET p == sim.events[i].peer
               l == SimLedgerBefore(i, p)
               d == route_fast(l[1], l[2], sim.events[i - 2].text, RulesOf(sim.cfg.rules), p)
           IN  d.action # "manual" => sim.events[i].decision = d

\* C27: after a message of a peer in BOT is processed, a send_template
\* decision has logged a send and left the peer in BOT, move_timewaster has
\* put it in TIMEWASTER, move_confirmation in CONFIRMATION, and a manual
\* decision with no classifier or a low-confidence answer in MANUAL.
C27_DecisionTakesEffect ==
    \A i \in DOMAIN sim.events :
        (SimProcessed(i) /\ SimFolderBefore(i, sim.events[i].peer) = "BOT")
        => LET p == sim.events[i].peer
               msg == SimMessage(i)
               after == SimFolderBefore(i + Cardinality(msg) + 1, p)
           IN  \A j \in msg :
                 sim.events[j].kind = "route" =>
                    CASE sim.events[j].decision.action = "send_template" ->
                            after = "BOT" /\ \E k \in msg : sim.events[k].kind = "send"
                      [] sim.events[j].decision.action = "move_timewaster" -> after = "TIMEWASTER"
                      [] sim.events[j].decision.action = "move_confirmation" -> after = "CONFIRMATION"
                      [] OTHER ->
                            (~sim.cfg.classifier
                                \/ \E k \in msg : /\ sim.events[k].kind = "llm_result"
                                                  /\ ~sim.events[k].error
                                                  /\ sim.events[k].confidence < Threshold)
                            => after = "MANUAL"

\* The place of each kind of event in the log of one message.
SimRank(kind) ==
    CASE kind = "incoming" -> 0
      [] kind = "read" -> 1
      [] kind = "route" -> 2
      [] kind = "llm_call" -> 3
      [] kind = "llm_result" -> 4
      [] kind = "typing" -> 5
      [] kind = "send" -> 6
      [] kind = "move_folder" -> 7
      [] OTHER -> 8

C28_ManualIsUnread ==
    \A i \in DOMAIN sim.events :
        (SimProcessed(i)
            /\ \E j \in SimMessage(i) : sim.events[j].kind = "move_folder" /\ sim.events[j].folder = "MANUAL")
        => \A j \in SimMessage(i) : sim.events[j].kind # "read"

\* ------------------------------------------- add_peer_to and remove_peer_from
\* The module-level functions of folder_manager.py that edit one folder by its
\* id.  One call runs at a time; the peer is one get_input_entity resolves.
notApi == <<fmVars, efVars, ledgerVars, rtVars, liveVars, simVars>>

MaxApiCalls == 3

\* FOLDERS.get(folder_id, f"Folder {folder_id}") of line 314.
NewFolderTitle(folder_id) == IF folder_id \in DOMAIN FOLDERS THEN FOLDERS[folder_id] ELSE "Folder"

\* Lines 324 and 342: a title that is a TextWithEntities is kept; a title that
\* is a plain string is replaced by the entry of FOLDERS for the id, if any.
KeptTitle(existing, folder_id, entities) ==
    IF entities \/ folder_id \notin DOMAIN FOLDERS THEN existing.title ELSE FOLDERS[folder_id]

\* An add_peer_to that sends its mutation whether or not the peer is listed.
AddNeededAlways(existing, p) == TRUE

\* Lines 320-322: add_peer_to goes on only for a peer the folder does not list.
AddNeeded(existing, p) == p \notin existing.peers

\* Lines 338-340: remove_peer_from goes on only if filtering shortened the list.
RemoveNeeded(existing, p) == existing.peers \ {p} # existing.peers

\* The first listing (current_filters, lines 309 and 332) and everything up to
\* the call of _safe_update_filter.  A failing listing leaves the function by
\* its exception; "returned" is the return of None, also after a failure that
\* _safe_update_filter swallowed.
ApiStart ==
    /\ api.pc \in {"idle", "returned", "raised"}
    /\ api.calls < MaxApiCalls
    /\ \E fn \in {"add_peer_to", "remove_peer_from"}, f \in FilterIds, p \in Peers, ans \in RequestAnswers, entities \in BOOLEAN :
        LET call == [IdleApi EXCEPT !.fn = fn, !.folder_id = f, !.peer = p,
                                    !.pre = remote, !.calls = api.calls + 1]
            existing == remote[f]
            sending(df) == [call EXCEPT !.pc = "update", !.desired = df]
        IN  api' =
              IF ans = "error" THEN [call EXCEPT !.pc = "raised"]
              ELSE IF fn = "add_peer_to"
              THEN IF existing = NoFilter
                   THEN sending(DialogFilter(NewFolderTitle(f), {p}))
                   ELSE IF AddNeeded(existing, p)
                   THEN sending(DialogFilter(KeptTitle(existing, f, entities), existing.peers \cup {p}))
                   ELSE [call EXCEPT !.pc = "returned"]
              ELSE IF existing = NoFilter
                   THEN [call EXCEPT !.pc = "returned"]
                   ELSE IF RemoveNeeded(existing, p)
                   THEN sending(DialogFilter(KeptTitle(existing, f, entities), existing.peers \ {p}))
                   ELSE [call EXCEPT !.pc = "returned"]
    /\ UNCHANGED <<remote, notApi>>

\* _safe_update_filter, line 221: its own listing.  Every exception inside it
\* is caught and makes it return False, which the caller only logs.
ApiSafeList ==
    /\ api.pc = "update"
    /\ \E ans \in RequestAnswers :
        api' = IF ans = "error" THEN [api EXCEPT !.pc = "returned"]
               ELSE IF api.folder_id \notin ListedIds(remote)
                    THEN [api EXCEPT !.pc = "reorder"]
                    ELSE [api EXCEPT !.pc = "send"]
    /\ UNCHANGED <<remote, notApi>>

\* _safe_update_filter, lines 222-227: the reorder request for an id the
\* listing does not hold.
ApiReorder ==
    /\ api.pc = "reorder"
    /\ \E ans \in RequestAnswers :
        api' = IF ans = "error" THEN [api EXCEPT !.pc = "returned"] ELSE [api EXCEPT !.pc = "send"]
    /\ UNCHANGED <<remote, notApi>>

\* _safe_update_filter, lines 229-238: the mutation itself.
ApiSend ==
    /\ api.pc = "send"
    /\ \E ans \in MutationAnswers :
        /\ api' = [api EXCEPT !.pc = "returned", !.sent = 1, !.accepted = (ans = "ok")]
        /\ remote' = IF ans = "ok" THEN ApplyMutation(remote, api.folder_id, api.desired) ELSE remote
    /\ UNCHANGED notApi

NextApi ==
    \/ ApiStart
    \/ ApiSafeList
    \/ ApiReorder
    \/ ApiSend

SpecApi == Init /\ [][NextApi]_vars

\* C29 as stated: after add_peer_to(f, p) the peer is a member of f and after
\* remove_peer_from(f, p) it is not; an add for a member changes nothing and a
\* remove for a non-member sends no mutation.
C29_AddRemoveAlwaysTakeEffect ==
    api.pc = "returned" =>
        /\ api.fn = "add_peer_to" => api.peer \in remote[api.folder_id].peers
        /\ api.fn = "remove_peer_from" => api.peer \notin remote[api.folder_id].peers

\* C29: when a call returns, an add whose mutation the directory accepted has
\* made the peer a member and a remove whose mutation it accepted has ended
\* the membership; an add for a peer that was a member and a remove for a
\* peer that was not (or from a folder that does not exist) send no mutation
\* and leave the directory as it was; a call whose mutation was not accepted
\* leaves the directory as it was.
C29_AddRemoveWhenAccepted ==
    api.pc = "returned" =>
        LET f == api.folder_id
            p == api.peer
            was == p \in api.pre[f].peers
        IN  /\ (api.fn = "add_peer_to" /\ (api.accepted \/ was)) => p \in remote[f].peers
            /\ (api.fn = "remove_peer_from" /\ (api.accepted \/ ~was)) => p \notin remote[f].peers
            /\ (api.fn = "add_peer_to" /\ was) => api.sent = 0 /\ remote = api.pre
            /\ (api.fn = "remove_peer_from" /\ ~was) => api.sent = 0 /\ remote = api.pre
            /\ ~api.accepted => remote = api.pre
            /\ api.accepted => \A g \in FilterIds \ {f} : remote[g] = api.pre[g]
            /\ api.accepted =>
                    remote[f].peers = IF api.fn = "add_peer_to"
                                      THEN api.pre[f].peers \cup {p} ELSE api.pre[f].peers \ {p}

\* A third call, remove_peer_from, has taken out of the folder a peer that an
\* earlier add_peer_to had put there.
C29_Witness ==
    /\ api.pc = "returned"
    /\ api.fn = "remove_peer_from"
    /\ api.accepted
    /\ api.calls = 3
    /\ api.peer \in api.pre[api.folder_id].peers
    /\ api.peer \notin remote[api.folder_id].peers

====
